---- MODULE Spec2Model ----
(***************************************************************************)
(* Arbitrage-Server: the sampling-and-detection pipeline.                  *)
(*                                                                         *)
(*   - calculate_arbitrage / detect_arbitrage_opportunity (detector),      *)
(*     over Python floats (IEEE-754 binary64, round-to-nearest-even);      *)
(*   - NobitexAPI / WallexAPI _rate_limit_check (per-client rate budget);  *)
(*   - ArbitrageNotificationService (per-symbol notification cooldown).    *)
(***************************************************************************)
EXTENDS Integers, Naturals, Sequences, FiniteSets, TLC

(***************************************************************************)
(* Unsigned 72-bit integers as three 24-bit limbs, least significant       *)
(* first.  They carry the 53-bit significands of binary64 and the          *)
(* intermediate results of its operations.                                 *)
(***************************************************************************)
LimbBase == 16777216

Limbs == Nat \X Nat \X Nat

BigZero == <<0, 0, 0>>

BigOne == <<1, 0, 0>>

BigOfInt[n \in Nat] == <<n % LimbBase, n \div LimbBase, 0>>

BigAdd[x \in Limbs, y \in Limbs] ==
    LET s0 == x[1] + y[1]
        s1 == x[2] + y[2] + (s0 \div LimbBase)
        s2 == x[3] + y[3] + (s1 \div LimbBase)
    IN  <<s0 % LimbBase, s1 % LimbBase, s2 % LimbBase>>

\* x - y for x >= y
BigSub[x \in Limbs, y \in Limbs] ==
    LET d0 == x[1] - y[1]
        b0 == IF d0 < 0 THEN 1 ELSE 0
        d1 == x[2] - y[2] - b0
        b1 == IF d1 < 0 THEN 1 ELSE 0
        d2 == x[3] - y[3] - b1
    IN  <<d0 + b0 * LimbBase, d1 + b1 * LimbBase, d2>>

BigGe[x \in Limbs, y \in Limbs] ==
    \/ x[3] > y[3]
    \/ x[3] = y[3] /\ x[2] > y[2]
    \/ x[3] = y[3] /\ x[2] = y[2] /\ x[1] >= y[1]

BigGt[x \in Limbs, y \in Limbs] == BigGe[x, y] /\ x # y

\* x * k for a small factor k (k < 128)
BigMulSmall[x \in Limbs, k \in Nat] ==
    LET p0 == x[1] * k
        p1 == x[2] * k + (p0 \div LimbBase)
        p2 == x[3] * k + (p1 \div LimbBase)
    IN  <<p0 % LimbBase, p1 % LimbBase, p2 % LimbBase>>

\* The number of bits of a limb v: the least k with v < 2^k
LimbBits == 24

IntBitLen[v \in Nat] == CHOOSE k \in 0..LimbBits : v < 2^k /\ (k = 0 \/ v >= 2^(k - 1))

BigBitLen[x \in Limbs] ==
    IF x[3] # 0 THEN 2 * LimbBits + IntBitLen[x[3]]
    ELSE IF x[2] # 0 THEN LimbBits + IntBitLen[x[2]]
    ELSE IntBitLen[x[1]]

BigIsOdd(x) == x[1] % 2 = 1

\* The limbs of x moved up by k whole limbs
LimbsUp[x \in Limbs, k \in Nat] ==
    IF k = 0 THEN x
    ELSE IF k = 1 THEN <<0, x[1], x[2]>>
    ELSE IF k = 2 THEN <<0, 0, x[1]>>
    ELSE BigZero

\* The limbs of x moved down by k whole limbs
LimbsDown[x \in Limbs, k \in Nat] ==
    IF k = 0 THEN x
    ELSE IF k = 1 THEN <<x[2], x[3], 0>>
    ELSE IF k = 2 THEN <<x[3], 0, 0>>
    ELSE BigZero

\* y * hi (mod 2^72) for hi * lo = 2^24
BitsUp[y \in Limbs, hi \in Nat, lo \in Nat] ==
    <<(y[1] % lo) * hi,
      (y[2] % lo) * hi + (y[1] \div lo),
      (y[3] % lo) * hi + (y[2] \div lo)>>

\* y \div hi for hi * lo = 2^24
BitsDown[y \in Limbs, hi \in Nat, lo \in Nat] ==
    <<(y[1] \div hi) + (y[2] % hi) * lo,
      (y[2] \div hi) + (y[3] % hi) * lo,
      y[3] \div hi>>

\* x * 2^n (mod 2^72): whole limbs first, then the remaining n % 24 bits
BigShl[x \in Limbs, n \in Nat] ==
    BitsUp[LimbsUp[x, n \div LimbBits], 2^(n % LimbBits),
           2^(LimbBits - (n % LimbBits))]

\* x \div 2^n
BigShr[x \in Limbs, n \in Nat] ==
    BitsDown[LimbsDown[x, n \div LimbBits], 2^(n % LimbBits),
             2^(LimbBits - (n % LimbBits))]

(***************************************************************************)
(* Python float: binary64.  A value is (-1)^neg * man * 2^exp with         *)
(* 2^52 <= man < 2^53, or zero (man = 0).  Prices and percentages stay far *)
(* from the subnormal and overflow ranges, which are not represented.      *)
(***************************************************************************)
MantBits == 53

Floats == [neg : BOOLEAN, man : Limbs, exp : Int]

FZero == [neg |-> FALSE, man |-> BigZero, exp |-> 0]

FIsZero(a) == a.man = BigZero

\* The float (-1)^neg * q * 2^e for a q of MantBits bits or one more, the
\* latter a power of two
FPack[neg \in BOOLEAN, q \in Limbs, e \in Int] ==
    IF BigBitLen[q] > MantBits
    THEN [neg |-> neg, man |-> BigShr[q, 1], exp |-> e + 1]
    ELSE [neg |-> neg, man |-> q, exp |-> e]

\* q, or q + 1 when the bits rem cut off below q are more than half, or are
\* half and sticky is set or q is odd
RoundEven[q \in Limbs, rem \in Limbs, half \in Limbs, sticky \in BOOLEAN] ==
    IF BigGt[rem, half] \/ (rem = half /\ (sticky \/ BigIsOdd(q)))
    THEN BigAdd[q, BigOne]
    ELSE q

\* X without its sh lowest bits, rounded
CutBits[X \in Limbs, q \in Limbs, sh \in Nat, sticky \in BOOLEAN] ==
    RoundEven[q, BigSub[X, BigShl[q, sh]], BigShl[BigOne, sh - 1], sticky]

\* The float nearest to (-1)^neg * (X + d) * 2^e for an X of len bits, where
\* 0 < d < 1 when sticky and d = 0 otherwise
FRoundLen[neg \in BOOLEAN, X \in Limbs, e \in Int, sticky \in BOOLEAN, len \in Nat] ==
    IF len = 0 THEN FZero
    ELSE IF len <= MantBits
         THEN [neg |-> neg, man |-> BigShl[X, MantBits - len],
               exp |-> e - (MantBits - len)]
         ELSE FPack[neg, CutBits[X, BigShr[X, len - MantBits], len - MantBits, sticky],
                    e + (len - MantBits)]

\* The float nearest to (-1)^neg * (X + d) * 2^e, where 0 < d < 1 when sticky
\* and d = 0 otherwise; ties go to the even significand.
FRound[neg \in BOOLEAN, X \in Limbs, e \in Int, sticky \in BOOLEAN] ==
    FRoundLen[neg, X, e, sticky, BigBitLen[X]]

\* float(n) of an int n with |n| < 2^31
FFromInt[n \in Int] ==
    IF n < 0 THEN FRound[TRUE, BigOfInt[-n], 0, FALSE]
    ELSE FRound[FALSE, BigOfInt[n], 0, FALSE]

FNeg[a \in Floats] == IF FIsZero(a) THEN a ELSE [a EXCEPT !.neg = ~a.neg]

\* |a| >= |b|
FMagGe[a \in Floats, b \in Floats] ==
    IF FIsZero(b) THEN TRUE
    ELSE IF FIsZero(a) THEN FALSE
    ELSE \/ a.exp > b.exp
         \/ a.exp = b.exp /\ BigGe[a.man, b.man]

\* a >= b
FGe[a \in Floats, b \in Floats] ==
    IF a.neg = b.neg
    THEN IF a.neg THEN FMagGe[b, a] ELSE FMagGe[a, b]
    ELSE b.neg

\* What is left of b's significand after its s lowest bits are dropped, and
\* whether any of them was set
DropBits[man \in Limbs, s \in Nat, xb \in Limbs] == <<xb, BigShl[xb, s] # man>>

\* The operands of an addition on a common exponent, a being the one with the
\* larger exponent: <<xa, xb, e, sticky>>.  xa keeps GuardBits bits below the
\* significand; what b loses below them is recorded in sticky.
GuardBits == 18

FAlign[a \in Floats, b \in Floats] ==
    IF a.exp - b.exp <= GuardBits
    THEN <<BigShl[a.man, a.exp - b.exp], b.man, b.exp, FALSE>>
    ELSE IF a.exp - GuardBits - b.exp > MantBits
    THEN <<BigShl[a.man, GuardBits], BigZero, a.exp - GuardBits, TRUE>>
    ELSE <<BigShl[a.man, GuardBits],
           BigShr[b.man, a.exp - GuardBits - b.exp],
           a.exp - GuardBits,
           DropBits[b.man, a.exp - GuardBits - b.exp,
                    BigShr[b.man, a.exp - GuardBits - b.exp]][2]>>

\* The sum or difference of operands aligned as al
FAddAligned[aneg \in BOOLEAN, bneg \in BOOLEAN, al \in Limbs \X Limbs \X Int \X BOOLEAN] ==
    IF aneg = bneg THEN FRound[aneg, BigAdd[al[1], al[2]], al[3], al[4]]
    ELSE IF al[4]
         THEN FRound[aneg, BigSub[BigSub[al[1], al[2]], BigOne], al[3], TRUE]
         ELSE FRound[aneg, BigSub[al[1], al[2]], al[3], FALSE]

\* a + b for |a| >= |b| > 0
FAddOrdered[a \in Floats, b \in Floats] == FAddAligned[a.neg, b.neg, FAlign[a, b]]

\* a + b, correctly rounded
FAdd[a \in Floats, b \in Floats] ==
    IF FIsZero(a) THEN b
    ELSE IF FIsZero(b) THEN a
    ELSE IF FMagGe[a, b] THEN FAddOrdered[a, b] ELSE FAddOrdered[b, a]

\* a - b
FSub[a \in Floats, b \in Floats] == FAdd[a, FNeg[b]]

\* Long division in base 2^DigitBits.  st = <<q, r>> with r < d; each step
\* appends to q the next digit g of r / d, the one with g*d <= r*2^DigitBits
\* < (g+1)*d, and keeps the remainder.
DigitBits == 5

DivDigits == 11

\* The digit g for the shifted remainder r2
DivDigit[r2 \in Limbs, d \in Limbs] ==
    CHOOSE c \in 0..(2^DigitBits - 1) :
        /\ BigGe[r2, BigMulSmall[d, c]]
        /\ BigGt[BigMulSmall[d, c + 1], r2]

DivStep[q \in Limbs, r2 \in Limbs, d \in Limbs, g \in Nat] ==
    <<BigAdd[BigShl[q, DigitBits], BigOfInt[g]], BigSub[r2, BigMulSmall[d, g]]>>

DivNext[q \in Limbs, r2 \in Limbs, d \in Limbs] == DivStep[q, r2, d, DivDigit[r2, d]]

DivLoop[st \in Limbs \X Limbs, d \in Limbs, k \in Nat] ==
    IF k = 0 THEN st
    ELSE DivLoop[DivNext[st[1], BigShl[st[2], DigitBits], d], d, k - 1]

\* The float nearest to (-1)^neg * (q + r / d) * 2^e for qr = <<q, r>>
FRoundQuotient[neg \in BOOLEAN, qr \in Limbs \X Limbs, e \in Int] ==
    FRound[neg, qr[1], e, qr[2] # BigZero]

\* a / b for b # 0, correctly rounded: DigitBits * DivDigits = MantBits + 2
\* quotient bits after the leading one, and a sticky bit for the remainder
FDiv[a \in Floats, b \in Floats] ==
    IF FIsZero(a) THEN FZero
    ELSE FRoundQuotient[
             a.neg # b.neg,
             DivLoop[IF BigGe[a.man, b.man] THEN <<BigOne, BigSub[a.man, b.man]>>
                                            ELSE <<BigZero, a.man>>,
                     b.man, DivDigits],
             a.exp - b.exp - DigitBits * DivDigits]

\* a * 100
FMul100[a \in Floats] == FRound[a.neg, BigMulSmall[a.man, 100], a.exp, FALSE]

(***************************************************************************)
(* Python values.  Optional[float] is <<>> (None) or <<f>>.                *)
(***************************************************************************)
None == <<>>

Some(f) == <<f>>

\* float(text) for the decimal text of c hundredths ("3.03" for 303): the
\* float nearest to c / 100
PriceDen == 100

ParsePrice(c) == FDiv[FFromInt[c], FFromInt[PriceDen]]

\* The float of a threshold literal of t hundredths (0.01 for 1)
ThresholdFloat(t) == FDiv[FFromInt[t], FFromInt[PriceDen]]

\* Python truth value of an Optional[float]: None and 0.0 are false
Truthy(p) == p # None /\ ~FIsZero(p[1])

(***************************************************************************)
(* ArbitrageDetector.calculate_arbitrage.  The result is None, the tuple   *)
(* (profit_percentage, buy_exchange, sell_exchange), or the exception a    *)
(* division by zero raises.                                                *)
(***************************************************************************)
NoResult == [kind |-> "none"]

ZeroDivisionError == [kind |-> "raise"]

Tuple3(profit, buy, sell) ==
    [kind |-> "tuple", profit |-> profit, buy |-> buy, sell |-> sell]

\* ((x - y) / y) * 100
ProfitPct[x \in Floats, y \in Floats] == FMul100[FDiv[FSub[x, y], y]]

\* calculate_arbitrage that tests the first direction only
calculate_arbitrage_one_way(nobitex_price, wallex_price, threshold) ==
    IF ~Truthy(nobitex_price) \/ ~Truthy(wallex_price) THEN NoResult
    ELSE IF FGe[ProfitPct[nobitex_price[1], wallex_price[1]], FMul100[threshold]]
         THEN Tuple3(ProfitPct[nobitex_price[1], wallex_price[1]], "wallex", "nobitex")
         ELSE NoResult

calculate_arbitrage(nobitex_price, wallex_price, threshold) ==
    IF ~Truthy(nobitex_price) \/ ~Truthy(wallex_price) THEN NoResult
    ELSE IF FIsZero(wallex_price[1]) \/ FIsZero(nobitex_price[1])
         THEN ZeroDivisionError
    ELSE LET profit_1 == ProfitPct[nobitex_price[1], wallex_price[1]]
             profit_2 == ProfitPct[wallex_price[1], nobitex_price[1]]
             limit    == FMul100[threshold]
         IN  IF FGe[profit_1, limit] THEN Tuple3(profit_1, "wallex", "nobitex")
             ELSE IF FGe[profit_2, limit] THEN Tuple3(profit_2, "nobitex", "wallex")
             ELSE NoResult

(***************************************************************************)
(* ArbitrageDetector.detect_arbitrage_opportunity, from the price data     *)
(* get_price_data returned.  The result is None, an ArbitrageOpportunity,  *)
(* or the exception calculate_arbitrage raised.                            *)
(***************************************************************************)
ArbitrageOpportunity(symbol, n, w, profit, amount, buy, sell, timestamp) ==
    [kind |-> "opportunity", symbol |-> symbol, nobitex_price |-> n,
     wallex_price |-> w, profit_percentage |-> profit, profit_amount |-> amount,
     buy_exchange |-> buy, sell_exchange |-> sell, timestamp |-> timestamp]

\* What detect_arbitrage_opportunity makes of the arbitrage_result it got
OpportunityOf(symbol, nobitex_price, wallex_price, arbitrage_result, timestamp) ==
    IF arbitrage_result.kind = "raise" THEN ZeroDivisionError
    ELSE IF arbitrage_result.kind = "none" THEN NoResult
    ELSE ArbitrageOpportunity(
             symbol, nobitex_price, wallex_price, arbitrage_result.profit,
             IF arbitrage_result.buy = "nobitex"
             THEN FSub[wallex_price, nobitex_price]
             ELSE FSub[nobitex_price, wallex_price],
             arbitrage_result.buy, arbitrage_result.sell, timestamp)

detect_arbitrage_opportunity(symbol, nobitex_price, wallex_price, threshold, timestamp) ==
    IF ~Truthy(nobitex_price) \/ ~Truthy(wallex_price) THEN NoResult
    ELSE CHOOSE found \in
             {OpportunityOf(symbol, nobitex_price[1], wallex_price[1],
                            arbitrage_result, timestamp) :
                 arbitrage_result \in
                     {calculate_arbitrage(nobitex_price, wallex_price, threshold)}} :
             TRUE

(***************************************************************************)
(* Time.  time.time() is the clock now, in ticks of 1 / TicksPerSecond     *)
(* second since the epoch.  time.sleep(d) returns d or more later.         *)
(***************************************************************************)
TicksPerSecond == 2

Seconds(n) == n * TicksPerSecond

\* How much longer than asked a sleep may take, in ticks
MaxSlack == 1

Slack == 0..MaxSlack

(***************************************************************************)
(* NobitexAPI / WallexAPI: the rate budget of a client and                 *)
(* _rate_limit_check.  Both classes hold the same code.                    *)
(***************************************************************************)
Clients == {"nobitex", "wallex"}

\* "Reset counter every minute": the window length, in seconds
WindowSeconds == 60

\* "Minimum 1 second between requests"
MinSpacingSeconds == 1

\* __init__ at time t with the configured rate_limit
NewClient(rate_limit, t) ==
    [rate_limit |-> rate_limit, last_request_time |-> 0,
     request_count |-> 0, minute_start |-> t]

\* _rate_limit_check without the sleep that spaces two requests
rate_limit_check_unspaced(cl, t, slack1, slack2) ==
    LET reset    == t - cl.minute_start >= Seconds(WindowSeconds)
        count1   == IF reset THEN 0 ELSE cl.request_count
        start1   == IF reset THEN t ELSE cl.minute_start
        wait_time == Seconds(WindowSeconds) - (t - start1)
        waits    == count1 >= cl.rate_limit /\ wait_time > 0
        t1       == IF waits THEN t + wait_time + slack1 ELSE t
    IN  [client |-> [cl EXCEPT !.last_request_time = t1,
                               !.request_count = (IF waits THEN 0 ELSE count1) + 1,
                               !.minute_start = IF waits THEN t1 ELSE start1],
         now |-> t1, woke |-> t1, waited |-> waits, spaced |-> FALSE]

\* _rate_limit_check without the sleep that waits for the window to end
rate_limit_check_unwaited(cl, t, slack1, slack2) ==
    LET reset    == t - cl.minute_start >= Seconds(WindowSeconds)
        count1   == IF reset THEN 0 ELSE cl.request_count
        start1   == IF reset THEN t ELSE cl.minute_start
        waits    == count1 >= cl.rate_limit /\ Seconds(WindowSeconds) - (t - start1) > 0
        time_since_last == t - cl.last_request_time
        spaced   == time_since_last < Seconds(MinSpacingSeconds)
        t2       == IF spaced
                    THEN t + (Seconds(MinSpacingSeconds) - time_since_last) + slack2
                    ELSE t
    IN  [client |-> [cl EXCEPT !.last_request_time = t2,
                               !.request_count = (IF waits THEN 0 ELSE count1) + 1,
                               !.minute_start = IF waits THEN t ELSE start1],
         now |-> t2, woke |-> t, waited |-> waits, spaced |-> spaced]

\* _rate_limit_check that keeps the count when its wait for the window ends
rate_limit_check_uncleared(cl, t, slack1, slack2) ==
    LET reset    == t - cl.minute_start >= Seconds(WindowSeconds)
        count1   == IF reset THEN 0 ELSE cl.request_count
        start1   == IF reset THEN t ELSE cl.minute_start
        wait_time == Seconds(WindowSeconds) - (t - start1)
        waits    == count1 >= cl.rate_limit /\ wait_time > 0
        t1       == IF waits THEN t + wait_time + slack1 ELSE t
        time_since_last == t - cl.last_request_time
        spaced   == time_since_last < Seconds(MinSpacingSeconds)
        t2       == IF spaced
                    THEN t1 + (Seconds(MinSpacingSeconds) - time_since_last) + slack2
                    ELSE t1
    IN  [client |-> [cl EXCEPT !.last_request_time = t2,
                               !.request_count = count1 + 1,
                               !.minute_start = IF waits THEN t1 ELSE start1],
         now |-> t2, woke |-> t1, waited |-> waits, spaced |-> spaced]

\* _rate_limit_check entered at time t; slack1 and slack2 are what the two
\* sleeps take beyond their argument.  Gives the client afterwards and the
\* time of return, which is the time last_request_time records.
rate_limit_check(cl, t, slack1, slack2) ==
    LET current_time == t
        reset    == current_time - cl.minute_start >= Seconds(WindowSeconds)
        count1   == IF reset THEN 0 ELSE cl.request_count
        start1   == IF reset THEN current_time ELSE cl.minute_start
        wait_time == Seconds(WindowSeconds) - (current_time - start1)
        waits    == count1 >= cl.rate_limit /\ wait_time > 0
        t1       == IF waits THEN t + wait_time + slack1 ELSE t
        count2   == IF waits THEN 0 ELSE count1
        start2   == IF waits THEN t1 ELSE start1
        time_since_last == current_time - cl.last_request_time
        spaced   == time_since_last < Seconds(MinSpacingSeconds)
        t2       == IF spaced
                    THEN t1 + (Seconds(MinSpacingSeconds) - time_since_last) + slack2
                    ELSE t1
    IN  [client |-> [cl EXCEPT !.last_request_time = t2,
                               !.request_count = count2 + 1,
                               !.minute_start = start2],
         now |-> t2, woke |-> t1, waited |-> waits, spaced |-> spaced]

(***************************************************************************)
(* NobitexAPI / WallexAPI: get_trades and get_latest_price.  What the      *)
(* exchange of requests.get gives is an input: a RequestException (no      *)
(* connection, a timeout, or a status raise_for_status rejects), a body    *)
(* that is not JSON, or a JSON object with its status, and its list of     *)
(* trades when it has one.  Of a trade only its price field counts:        *)
(* absent, null, a text that is no number, or the decimal text of a number *)
(* of hundredths.                                                          *)
(***************************************************************************)
PriceField(tag, num) == [tag |-> tag, num |-> num]

Response(kind, ok, has_trades, trades) ==
    [kind |-> kind, ok |-> ok, has_trades |-> has_trades, trades |-> trades]

\* The numbers the price texts of the trades spell, in hundredths
PriceTexts == {0, -500, 10000, 10200}

FloatOfText == [c \in PriceTexts |-> ParsePrice(c)]

\* float(latest_trade["price"]): the float, or the exception raised
FloatOfPrice(field) ==
    IF field.tag = "missing" THEN [error |-> "KeyError", value |-> None]
    ELSE IF field.tag = "null" THEN [error |-> "TypeError", value |-> None]
    ELSE IF field.tag = "text" THEN [error |-> "ValueError", value |-> None]
    ELSE [error |-> "none", value |-> Some(FloatOfText[field.num])]

\* get_trades that asks once more after a RequestException
get_trades_retrying(cl, t, slack1, slack2, resp) ==
    CHOOSE result \in
        {IF resp.kind = "network_error"
         THEN CHOOSE retried \in
                  {[client |-> again.client, now |-> again.now,
                    checks |-> <<r, again>>, requests |-> <<r.now, again.now>>,
                    data |-> None] :
                      again \in {rate_limit_check(r.client, r.now, slack1, slack2)}} :
                  TRUE
         ELSE [client |-> r.client, now |-> r.now, checks |-> <<r>>,
               requests |-> <<r.now>>,
               data |-> IF resp.kind = "body" /\ resp.ok THEN Some(resp) ELSE None] :
             r \in {rate_limit_check(cl, t, slack1, slack2)}} : TRUE

\* get_trades entered at time t: _rate_limit_check, then one requests.get.
\* Gives the client afterwards, the time, every rate check made and the time
\* of every request sent, and the data returned: the body when it is JSON
\* and its status is the good one, None otherwise.
get_trades(cl, t, slack1, slack2, resp) ==
    CHOOSE result \in
        {[client |-> r.client, now |-> r.now, checks |-> <<r>>,
          requests |-> <<r.now>>,
          data |-> IF resp.kind = "body" /\ resp.ok THEN Some(resp) ELSE None] :
             r \in {rate_limit_check(cl, t, slack1, slack2)}} : TRUE

\* What a call of get_latest_price ends with: a return value or an exception
Returned(value) == [raised |-> FALSE, value |-> value]

Raised == [raised |-> TRUE, value |-> None]

\* What get_latest_price makes of the trades_data get_trades returned.
\* `except (ValueError, KeyError)` turns these two into None; any other
\* exception leaves the method.
LatestPrice(trades_data) ==
    IF trades_data = None THEN Returned(None)
    ELSE IF ~trades_data[1].has_trades \/ trades_data[1].trades = <<>>
         THEN Returned(None)
    ELSE LET price == FloatOfPrice(trades_data[1].trades[1])
         IN  IF price.error = "none" THEN Returned(price.value)
             ELSE IF price.error \in {"ValueError", "KeyError"}
                  THEN Returned(None)
                  ELSE Raised

\* get_latest_price entered at time t
get_latest_price(cl, t, slack1, slack2, resp) ==
    CHOOSE result \in
        {[client |-> g.client, now |-> g.now, checks |-> g.checks,
          requests |-> g.requests, outcome |-> LatestPrice(g.data)] :
             g \in {get_trades(cl, t, slack1, slack2, resp)}} : TRUE

(***************************************************************************)
(* ArbitrageNotificationService: the per-symbol cooldown and the sending   *)
(* of one alert.  last_notifications is a dict: a function whose domain is *)
(* the symbols that have an entry.                                         *)
(***************************************************************************)
\* self.notification_cooldown, in seconds
notification_cooldown == 300

EmptyDict == <<>>

\* d.get(k, default)
DictGet(d, k, default) == IF k \in DOMAIN d THEN d[k] ELSE default

\* d[k] = v
DictSet(d, k, v) == [x \in DOMAIN d \cup {k} |-> IF x = k THEN v ELSE d[x]]

\* should_send_notification that admits every opportunity
should_send_always(last, symbol, current_time) == TRUE

\* should_send_notification that still rejects at exactly the cooldown
should_send_late(last, symbol, current_time) ==
    ~(current_time - DictGet(last, symbol, 0) <= Seconds(notification_cooldown))

\* should_send_notification at time current_time
should_send_notification(last, symbol, current_time) ==
    LET last_notification_time == DictGet(last, symbol, 0)
    IN  ~(current_time - last_notification_time < Seconds(notification_cooldown))

\* What send_arbitrage_alert can do: return True, return False, raise
SendOutcomes == {"ok", "failed", "raised"}

\* send_arbitrage_notification that records the time of every attempt
send_arbitrage_notification_eager(bale, last, symbol, t, outcome, latency) ==
    IF ~bale THEN [result |-> FALSE, last |-> last, now |-> t, step |-> "unconfigured"]
    ELSE IF ~should_send_notification(last, symbol, t)
    THEN [result |-> FALSE, last |-> last, now |-> t, step |-> "cooldown"]
    ELSE [result |-> outcome = "ok", last |-> DictSet(last, symbol, t + latency),
          now |-> t + latency, step |-> IF outcome = "ok" THEN "sent" ELSE outcome]

\* send_arbitrage_notification that never records the time of an alert
send_arbitrage_notification_forgetful(bale, last, symbol, t, outcome, latency) ==
    IF ~bale THEN [result |-> FALSE, last |-> last, now |-> t, step |-> "unconfigured"]
    ELSE IF ~should_send_notification(last, symbol, t)
    THEN [result |-> FALSE, last |-> last, now |-> t, step |-> "cooldown"]
    ELSE [result |-> outcome = "ok", last |-> last,
          now |-> t + latency, step |-> IF outcome = "ok" THEN "sent" ELSE outcome]

\* send_arbitrage_notification that starts the dict afresh with each alert
send_arbitrage_notification_resetting(bale, last, symbol, t, outcome, latency) ==
    IF ~bale
    THEN [result |-> FALSE, last |-> last, now |-> t, step |-> "unconfigured"]
    ELSE IF ~should_send_notification(last, symbol, t)
    THEN [result |-> FALSE, last |-> last, now |-> t, step |-> "cooldown"]
    ELSE IF outcome = "ok"
    THEN [result |-> TRUE, last |-> DictSet(EmptyDict, symbol, t + latency),
          now |-> t + latency, step |-> "sent"]
    ELSE [result |-> FALSE, last |-> last, now |-> t + latency, step |-> outcome]

\* send_arbitrage_notification that records the time of an attempt made
\* without a notifier
send_arbitrage_notification_marking(bale, last, symbol, t, outcome, latency) ==
    IF ~bale
    THEN [result |-> FALSE, last |-> DictSet(last, symbol, t), now |-> t,
          step |-> "unconfigured"]
    ELSE IF ~should_send_notification(last, symbol, t)
    THEN [result |-> FALSE, last |-> last, now |-> t, step |-> "cooldown"]
    ELSE IF outcome = "ok"
    THEN [result |-> TRUE, last |-> DictSet(last, symbol, t + latency),
          now |-> t + latency, step |-> "sent"]
    ELSE [result |-> FALSE, last |-> last, now |-> t + latency, step |-> outcome]

\* send_arbitrage_notification entered at time t, where send_arbitrage_alert
\* ends in outcome after latency.  Gives the returned value, the dict and the
\* clock afterwards, and the branch taken.
send_arbitrage_notification(bale, last, symbol, t, outcome, latency) ==
    IF ~bale
    THEN [result |-> FALSE, last |-> last, now |-> t, step |-> "unconfigured"]
    ELSE IF ~should_send_notification(last, symbol, t)
    THEN [result |-> FALSE, last |-> last, now |-> t, step |-> "cooldown"]
    ELSE IF outcome = "ok"
    THEN [result |-> TRUE, last |-> DictSet(last, symbol, t + latency),
          now |-> t + latency, step |-> "sent"]
    ELSE [result |-> FALSE, last |-> last, now |-> t + latency, step |-> outcome]

(***************************************************************************)
(* The shipped configuration.                                              *)
(***************************************************************************)
TRADING_PAIRS ==
    <<"BTCUSDT", "ETHUSDT", "LTCUSDT", "XRPUSDT", "BCHUSDT", "BNBUSDT",
      "XLMUSDT", "ETCUSDT", "TRXUSDT", "DOGEUSDT", "UNIUSDT", "DAIUSDT",
      "LINKUSDT", "DOTUSDT", "AAVEUSDT">>

NOBITEX_RATE_LIMIT == 60

WALLEX_RATE_LIMIT == 60

\* ARBITRAGE_THRESHOLD = 0.01, in hundredths
ARBITRAGE_THRESHOLD == 1

CHECK_INTERVAL_SECONDS == 60

(***************************************************************************)
(* ArbitrageDetector.get_price_data and one turn of the loop of            *)
(* scan_all_pairs, with the fetches they make.                             *)
(***************************************************************************)
\* get_price_data entered at time t: get_latest_price of Nobitex, then of
\* Wallex.  An exception of the first leaves the method before the second
\* is called.
get_price_data(cls, t, slack_n, slack_w, resp_n, resp_w) ==
    CHOOSE price_data \in
        {IF n.outcome.raised
         THEN [client |-> [cls EXCEPT !["nobitex"] = n.client], now |-> n.now,
               raised |-> TRUE, nobitex |-> None, wallex |-> None,
               calls |-> [nobitex |-> <<n>>, wallex |-> <<>>]]
         ELSE CHOOSE both \in
                  {[client |-> [nobitex |-> n.client, wallex |-> w.client],
                    now |-> w.now, raised |-> w.outcome.raised,
                    nobitex |-> n.outcome.value, wallex |-> w.outcome.value,
                    calls |-> [nobitex |-> <<n>>, wallex |-> <<w>>]] :
                      w \in {get_latest_price(cls["wallex"], n.now,
                                              slack_w, slack_w, resp_w)}} : TRUE :
             n \in {get_latest_price(cls["nobitex"], t, slack_n, slack_n, resp_n)}} :
        TRUE

\* detect_arbitrage_opportunity for every pair of prices the texts spell,
\* under the shipped threshold
DetectPrices ==
    [n \in PriceTexts, w \in PriceTexts |->
        CHOOSE found \in
            {detect_arbitrage_opportunity("", Some(x), Some(y), t, 0) :
                x \in {FloatOfText[n]}, y \in {FloatOfText[w]},
                t \in {ThresholdFloat(ARBITRAGE_THRESHOLD)}} : TRUE]

\* The text a float of FloatOfText was parsed from
TextOf(f) == CHOOSE c \in PriceTexts : FloatOfText[c] = f

\* The rest of detect_arbitrage_opportunity(symbol), once get_price_data
\* has returned the two prices at time t
DetectData(symbol, nobitex_price, wallex_price, t) ==
    IF nobitex_price = None \/ wallex_price = None
    THEN detect_arbitrage_opportunity(symbol, nobitex_price, wallex_price,
                                      FZero, t)
    ELSE LET found == DetectPrices[TextOf(nobitex_price[1]), TextOf(wallex_price[1])]
         IN  IF found.kind = "opportunity"
             THEN [found EXCEPT !.symbol = symbol, !.timestamp = t]
             ELSE found

\* A turn of the loop that gives up the scan when a price is missing
scan_turn_stops_at_miss(opportunities, pos, last, symbol, data) ==
    LET found == IF data.raised THEN NoResult
                 ELSE DetectData(symbol, data.nobitex, data.wallex, data.now)
    IN  [opportunities |-> IF found.kind = "opportunity"
                           THEN Append(opportunities, found) ELSE opportunities,
         pos |-> IF ~data.raised /\ (data.nobitex = None \/ data.wallex = None)
                 THEN last + 1 ELSE pos + 1,
         found |-> found,
         caught |-> data.raised \/ found.kind = "raise"]

\* A turn of the loop that gives up the scan when an exception is raised
scan_turn_stops_at_error(opportunities, pos, last, symbol, data) ==
    LET found == IF data.raised THEN NoResult
                 ELSE DetectData(symbol, data.nobitex, data.wallex, data.now)
    IN  [opportunities |-> IF found.kind = "opportunity"
                           THEN Append(opportunities, found) ELSE opportunities,
         pos |-> IF data.raised \/ found.kind = "raise" THEN last + 1 ELSE pos + 1,
         found |-> found,
         caught |-> data.raised \/ found.kind = "raise"]

\* A turn of the loop that puts what it finds at the head of the list
scan_turn_prepends(opportunities, pos, last, symbol, data) ==
    LET found == IF data.raised THEN NoResult
                 ELSE DetectData(symbol, data.nobitex, data.wallex, data.now)
    IN  [opportunities |-> IF found.kind = "opportunity"
                           THEN <<found>> \o opportunities ELSE opportunities,
         pos |-> pos + 1,
         found |-> found,
         caught |-> data.raised \/ found.kind = "raise"]

\* One turn of `for symbol in self.trading_pairs`, at position pos of last,
\* after get_price_data gave data: what detect_arbitrage_opportunity found
\* is appended; an exception is caught and the loop goes on.
scan_turn(opportunities, pos, last, symbol, data) ==
    LET found == IF data.raised THEN NoResult
                 ELSE DetectData(symbol, data.nobitex, data.wallex, data.now)
    IN  [opportunities |-> IF found.kind = "opportunity"
                           THEN Append(opportunities, found) ELSE opportunities,
         pos |-> pos + 1,
         found |-> found,
         caught |-> data.raised \/ found.kind = "raise"]

(***************************************************************************)
(* BaleNotifier.  What requests.post and raise_for_status come to is an    *)
(* input: an exception of requests.post (a RequestException such as a      *)
(* timeout or a lost connection, or another exception), or a response with *)
(* its status.                                                             *)
(***************************************************************************)
\* The exceptions that are RequestExceptions
RequestExceptions == {"Timeout", "ConnectionError", "HTTPError"}

\* The exception the body of the try of send_message ends with, "none"
\* when it ends with none: raise_for_status raises HTTPError for a status
\* from 400 on
PostRaises(exchange) ==
    IF exchange.error # "none" THEN exchange.error
    ELSE IF exchange.status >= 400 THEN "HTTPError"
    ELSE "none"

\* send_message that handles the RequestExceptions alone
send_message_narrow(message, exchange) ==
    IF PostRaises(exchange) = "none" THEN Returned(TRUE)
    ELSE IF PostRaises(exchange) \in RequestExceptions THEN Returned(FALSE)
    ELSE Raised

\* send_message: True when the message was posted and the status accepted;
\* False on a RequestException, and on any other exception
send_message(message, exchange) ==
    IF PostRaises(exchange) = "none" THEN Returned(TRUE)
    ELSE IF PostRaises(exchange) \in RequestExceptions THEN Returned(FALSE)
    ELSE Returned(FALSE)

\* The last day datetime.fromtimestamp accepts, in days of 86400 seconds
\* since the epoch: the last of year 9999
DatetimeMaxDay == 2932896

\* str.upper() of the name of an exchange
Upper(exchange) == IF exchange = "nobitex" THEN "NOBITEX" ELSE "WALLEX"

\* format_arbitrage_message: the message, with the discovery time to the
\* second and the names of the exchanges in capitals, or the exception
\* datetime.fromtimestamp raises for a time out of its range
format_arbitrage_message(opportunity) ==
    IF (opportunity.timestamp \div TicksPerSecond) \div 86400 > DatetimeMaxDay
    THEN Raised
    ELSE Returned([symbol |-> opportunity.symbol,
                   time |-> opportunity.timestamp \div TicksPerSecond,
                   buy |-> Upper(opportunity.buy_exchange),
                   sell |-> Upper(opportunity.sell_exchange)])

\* send_arbitrage_alert: the message is formatted, then sent
send_arbitrage_alert(opportunity, exchange) ==
    IF format_arbitrage_message(opportunity).raised THEN Raised
    ELSE send_message(format_arbitrage_message(opportunity).value, exchange)

(***************************************************************************)
(* DatabaseIntegrationService.store_arbitrage_opportunity: the row is      *)
(* added to the table when the database takes it; the result says whether  *)
(* it did, an exception of the database included.                          *)
(***************************************************************************)
store_arbitrage_opportunity(table, opportunity, db_ok) ==
    IF db_ok
    THEN [table |-> Append(table,
                           [symbol |-> opportunity.symbol,
                            nobitex_price |-> opportunity.nobitex_price,
                            wallex_price |-> opportunity.wallex_price,
                            profit_percentage |-> opportunity.profit_percentage,
                            profit_amount |-> opportunity.profit_amount,
                            buy_exchange |-> opportunity.buy_exchange,
                            sell_exchange |-> opportunity.sell_exchange,
                            timestamp |-> opportunity.timestamp]),
          result |-> TRUE]
    ELSE [table |-> table, result |-> FALSE]

(***************************************************************************)
(* State.                                                                  *)
(*   calc_in   the arguments of a call of calculate_arbitrage, as the      *)
(*             decimal texts they were parsed from (hundredths; None for a *)
(*             missing price), and the threshold in hundredths             *)
(*   calc_out  what the call returned ("pending" before it)                *)
(*   detect_out  what detect_arbitrage_opportunity returned for the same   *)
(*             prices as its price data                                    *)
(*   now       the clock                                                   *)
(*   client    the rate budget of each price client                        *)
(*   req_log   per client, for each request it issued: when the call       *)
(*             arrived and at what time the request went out; for the      *)
(*             clients on their own also when the wait for the window      *)
(*             ended and the budget before and after the call              *)
(*   elapsed   whether the last step was the passing of time alone         *)
(*   bale_configured     whether create_bale_notifier gave a notifier      *)
(*   last_notifications  the service's dict of last alert times            *)
(*   pc, pos   where scan_and_notify stands: idle, in the scan loop or in  *)
(*             the notification loop, and at which element                 *)
(*   fetched   the quotes the current scan got, per pair scanned so far    *)
(*   opportunities  the list scan_all_pairs is building / has returned     *)
(*   attempts  every call of send_arbitrage_notification so far            *)
(*   cycles    every scan_and_notify that has returned                     *)
(*   running, start_time, scan_count, total_opportunities, last_scan_time  *)
(*             the fields of ArbitrageApp                                  *)
(*   main_pc   where the main thread stands: before start(), at the test   *)
(*             of the main loop, in run_pending, in a scan cycle, asleep,  *)
(*             at the finally clause, or after start() has returned        *)
(*   jobs      the jobs of the scheduler: when each is next due            *)
(*   runnable  the jobs the current run_pending has still to run           *)
(*   reports   the startup, shutdown and error messages the application    *)
(*             handed to its notifier                                      *)
(*   events    the calls of start() and stop() and the signals delivered,  *)
(*             in order                                                    *)
(*   posts     the calls made on the BaleNotifier on its own: what was     *)
(*             asked, what the HTTP exchange came to, what the call ended  *)
(*             with                                                        *)
(*   stored    the rows of the table of arbitrage opportunities            *)
(***************************************************************************)
VARIABLES calc_in, calc_out, detect_out, now, client, req_log, elapsed,
          bale_configured, last_notifications, pc, pos, fetched,
          opportunities, attempts, cycles,
          running, start_time, scan_count, total_opportunities,
          last_scan_time, main_pc, jobs, runnable, reports, events,
          posts, stored

calcVars == <<calc_in, calc_out, detect_out>>

rateVars == <<client, req_log>>

notifyVars == <<bale_configured, last_notifications, pc, pos, fetched,
                opportunities, attempts, cycles>>

sinkVars == <<posts, stored>>

appVars == <<running, start_time, scan_count, total_opportunities,
             last_scan_time, main_pc, jobs, runnable, reports, events>>

vars == <<calc_in, calc_out, detect_out, now, client, req_log, elapsed,
          bale_configured, last_notifications, pc, pos, fetched,
          opportunities, attempts, cycles,
          running, start_time, scan_count, total_opportunities,
          last_scan_time, main_pc, jobs, runnable, reports, events,
          posts, stored>>

\* Bounds of the calculator's inputs
MaxScale == 3

MaxSpread == 3

MaxThresholdPct == 2

\* Prices quoted in the repository's tests (45000, 45500, 56250)
TestPrices == {4500000, 4550000, 5625000}

PositivePrices ==
    {PriceDen * k + j : k \in 1..MaxScale, j \in 0..MaxSpread} \cup TestPrices

PriceInputs ==
    {None} \cup {Some(c) : c \in PositivePrices \cup {0}}
           \cup {Some(-c) : c \in PositivePrices \ TestPrices}

Thresholds == 0..MaxThresholdPct

Pending == [kind |-> "pending"]

\* The float an input stands for
PriceFloat(q) == IF q = None THEN None ELSE Some(ParsePrice(q[1]))

\* No call of the calculator is under way
CalcUnused ==
    /\ calc_in = [nobitex |-> None, wallex |-> None, threshold |-> 0]
    /\ calc_out = Pending
    /\ detect_out = Pending

\* A service just constructed, with or without a notifier
NewService(bale) ==
    /\ bale_configured = bale
    /\ last_notifications = EmptyDict
    /\ pc = "idle"
    /\ pos = 0
    /\ fetched = <<>>
    /\ opportunities = <<>>
    /\ attempts = <<>>
    /\ cycles = <<>>

\* ArbitrageApp.__init__
NewApp ==
    /\ running = FALSE
    /\ start_time = None
    /\ scan_count = 0
    /\ total_opportunities = 0
    /\ last_scan_time = None
    /\ main_pc = "init"
    /\ jobs = <<>>
    /\ runnable = <<>>
    /\ reports = <<>>
    /\ events = <<>>
    /\ posts = <<>>
    /\ stored = <<>>

InitCalc ==
    /\ NewApp
    /\ calc_in \in [nobitex : PriceInputs, wallex : PriceInputs, threshold : Thresholds]
    /\ calc_out = Pending
    /\ detect_out = Pending
    /\ now = 0
    /\ client = [c \in Clients |-> NewClient(1, 0)]
    /\ req_log = [c \in Clients |-> <<>>]
    /\ elapsed = FALSE
    /\ NewService(FALSE)

CallCalculateArbitrage ==
    /\ calc_out = Pending
    /\ \E n \in {PriceFloat(calc_in.nobitex)}, w \in {PriceFloat(calc_in.wallex)},
          t \in {ThresholdFloat(calc_in.threshold)} :
          calc_out' = calculate_arbitrage(n, w, t)
    /\ UNCHANGED <<appVars, sinkVars, calc_in, detect_out, now, rateVars, elapsed, notifyVars>>

CallDetect ==
    /\ detect_out = Pending
    /\ \E n \in {PriceFloat(calc_in.nobitex)}, w \in {PriceFloat(calc_in.wallex)},
          t \in {ThresholdFloat(calc_in.threshold)} :
          detect_out' = detect_arbitrage_opportunity("BTCUSDT", n, w, t, 0)
    /\ UNCHANGED <<appVars, sinkVars, calc_in, calc_out, now, rateVars, elapsed, notifyVars>>

NextCalc == CallCalculateArbitrage \/ CallDetect

SpecCalc == InitCalc /\ [][NextCalc]_vars

(***************************************************************************)
(* The calculator's claims, stated on the decimal prices the floats were   *)
(* parsed from.                                                            *)
(***************************************************************************)
IsPositive(q) == q # None /\ q[1] > 0

\* (sell - buy) / buy >= t / 100, for buy > 0
ExactPctGe(buy, sell, t) == (sell - buy) * PriceDen >= t * buy

\* max(pctA->B, pctB->A) >= threshold
ExactMeets(in) ==
    \/ ExactPctGe(in.nobitex[1], in.wallex[1], in.threshold)
    \/ ExactPctGe(in.wallex[1], in.nobitex[1], in.threshold)

\* C2: for positive prices, calculate_arbitrage returns an opportunity iff
\* max(pctA->B, pctB->A) >= threshold; the opportunity buys on the cheaper
\* source and sells on the other; equal prices with a threshold > 0 give none.
C2_IffThreshold ==
    (calc_out # Pending /\ IsPositive(calc_in.nobitex) /\ IsPositive(calc_in.wallex))
    => /\ (calc_out.kind = "tuple") <=> ExactMeets(calc_in)
       /\ calc_out.kind = "tuple" =>
            /\ calc_out.buy # calc_out.sell
            /\ calc_out.buy = "nobitex" => calc_in.nobitex[1] <= calc_in.wallex[1]
            /\ calc_out.buy = "wallex" => calc_in.wallex[1] <= calc_in.nobitex[1]
       /\ (calc_in.nobitex = calc_in.wallex /\ calc_in.threshold > 0)
            => calc_out = NoResult

\* C9: calculate_arbitrage and detect_arbitrage_opportunity return None when
\* either price is missing, zero or negative, and never divide by zero.
C9_NonPositiveGivesNone ==
    /\ calc_out # ZeroDivisionError
    /\ detect_out # ZeroDivisionError
    /\ (~IsPositive(calc_in.nobitex) \/ ~IsPositive(calc_in.wallex))
       => /\ calc_out \in {Pending, NoResult}
          /\ detect_out \in {Pending, NoResult}

\* price2 = price * (1 + threshold), on the decimal prices
AtBoundary(price, price2, t) == price2 * PriceDen = price * (PriceDen + t)

\* C10: for positive prices and a positive threshold, prices exactly the
\* threshold apart (in either direction) give an opportunity whose
\* profit_percentage equals 100 * threshold.
C10_BoundaryInclusive ==
    (/\ calc_out # Pending
     /\ IsPositive(calc_in.nobitex) /\ IsPositive(calc_in.wallex)
     /\ calc_in.threshold > 0
     /\ \/ AtBoundary(calc_in.nobitex[1], calc_in.wallex[1], calc_in.threshold)
        \/ AtBoundary(calc_in.wallex[1], calc_in.nobitex[1], calc_in.threshold))
    => /\ calc_out.kind = "tuple"
       /\ calc_out.profit = FMul100[ThresholdFloat(calc_in.threshold)]

\* |a - b|
FAbsDiff[a \in Floats, b \in Floats] == IF FGe[a, b] THEN FSub[a, b] ELSE FSub[b, a]

\* C11: every ArbitrageOpportunity detect_arbitrage_opportunity produces has
\* different buy and sell exchanges, a profit of at least the threshold, and
\* a profit_amount that is |nobitex_price - wallex_price|, never negative.
C11_OpportunityInvariants ==
    detect_out.kind = "opportunity"
    => /\ detect_out.buy_exchange # detect_out.sell_exchange
       /\ FGe[detect_out.profit_percentage, FMul100[ThresholdFloat(calc_in.threshold)]]
       /\ ~detect_out.profit_amount.neg
       /\ detect_out.profit_amount =
              FAbsDiff[detect_out.nobitex_price, detect_out.wallex_price]

\* calculate_arbitrage had it tested the direction that buys on Nobitex and
\* sells on Wallex first
TestedNobitexFirst(nobitex_price, wallex_price, threshold) ==
    IF FGe[ProfitPct[wallex_price, nobitex_price], FMul100[threshold]]
    THEN Tuple3(ProfitPct[wallex_price, nobitex_price], "nobitex", "wallex")
    ELSE IF FGe[ProfitPct[nobitex_price, wallex_price], FMul100[threshold]]
    THEN Tuple3(ProfitPct[nobitex_price, wallex_price], "wallex", "nobitex")
    ELSE NoResult

\* Both directions meet the threshold
BothDirections(nobitex_price, wallex_price, threshold) ==
    /\ FGe[ProfitPct[wallex_price, nobitex_price], FMul100[threshold]]
    /\ FGe[ProfitPct[nobitex_price, wallex_price], FMul100[threshold]]

\* The result does not depend on the order of the two tests
OrderFree ==
    \A n \in {ParsePrice(calc_in.nobitex[1])}, w \in {ParsePrice(calc_in.wallex[1])},
       t \in {ThresholdFloat(calc_in.threshold)} :
        /\ ~BothDirections(n, w, t)
        /\ calc_out = TestedNobitexFirst(n, w, t)

MaxRateLimit == 2

MaxCalls == 3

\* The clock at construction: at the epoch, or far from it
StartLateSeconds == 1000

StartTimes == {0, Seconds(StartLateSeconds)}

\* Time that passes between two calls
Gaps == {1, Seconds(MinSpacingSeconds),
         Seconds(WindowSeconds - MinSpacingSeconds), Seconds(WindowSeconds)}

TotalCalls == Len(req_log["nobitex"]) + Len(req_log["wallex"])

InitRate ==
    /\ CalcUnused
    /\ NewApp
    /\ NewService(FALSE)
    /\ now \in StartTimes
    /\ \E limits \in [Clients -> 1..MaxRateLimit] :
           client = [c \in Clients |-> NewClient(limits[c], now)]
    /\ req_log = [c \in Clients |-> <<>>]
    /\ elapsed = FALSE

\* Time passes: one of the gaps, and no two in a row
Elapse(gaps) ==
    /\ ~elapsed
    /\ \E d \in gaps : now' = now + d
    /\ elapsed' = TRUE
    /\ UNCHANGED <<appVars, sinkVars, calcVars, rateVars, notifyVars>>

\* A fetch of client c: _rate_limit_check, then the request
RateLimitedCall(c) ==
    /\ TotalCalls < MaxCalls
    /\ \E slack1, slack2 \in Slack :
         LET r == rate_limit_check(client[c], now, slack1, slack2)
         IN  /\ client' = [client EXCEPT ![c] = r.client]
             /\ now' = r.now
             /\ req_log' = [req_log EXCEPT ![c] =
                    Append(@, [arrived |-> now, at |-> r.now, woke |-> r.woke,
                               before |-> client[c], after |-> r.client])]
    /\ elapsed' = FALSE
    /\ UNCHANGED <<appVars, sinkVars, calcVars, notifyVars>>

NextRate ==
    \/ TotalCalls < MaxCalls /\ Elapse(Gaps)
    \/ \E c \in Clients : RateLimitedCall(c)

SpecRate == InitRate /\ [][NextRate]_vars

\* The requests of client c issued in the rolling window that ends at time t
InWindow(c, t) ==
    {i \in 1..Len(req_log[c]) :
        req_log[c][i].at <= t /\ req_log[c][i].at > t - Seconds(WindowSeconds)}

\* C3: the number of requests a client issues within any rolling interval of
\* the window length never exceeds its rate_limit.
C3_RollingWindow ==
    \A c \in Clients : \A i \in 1..Len(req_log[c]) :
        Cardinality(InWindow(c, req_log[c][i].at)) <= client[c].rate_limit

\* C4: any two consecutive requests of a client are at least the minimum
\* spacing apart: a call that arrives sooner after the previous request is
\* held back for at least the remainder.
C4_MinSpacing ==
    \A c \in Clients : \A i \in 1..(Len(req_log[c]) - 1) :
        req_log[c][i + 1].at - req_log[c][i].at >= Seconds(MinSpacingSeconds)

\* A call arrived one tick after the previous request of its client and went
\* out exactly the minimum spacing after it.
C4_BlockedForRemainder ==
    \E c \in Clients : \E i \in 1..(Len(req_log[c]) - 1) :
        /\ req_log[c][i + 1].arrived - req_log[c][i].at = 1
        /\ req_log[c][i + 1].at - req_log[c][i].at = Seconds(MinSpacingSeconds)

\* The calls of client c that found the budget of the current window used up
Exhausted(c) ==
    {i \in 1..Len(req_log[c]) :
        /\ req_log[c][i].before.request_count >= req_log[c][i].before.rate_limit
        /\ req_log[c][i].arrived - req_log[c][i].before.minute_start
               < Seconds(WindowSeconds)}

\* The longest the two sleeps of one call can take
MaxDelay == Seconds(WindowSeconds) + Seconds(MinSpacingSeconds) + 2 * MaxSlack

\* C13: a call that finds rate_limit requests counted in the current window
\* issues its request no earlier than minute_start + the window length; when
\* its wait ends the window starts anew at the wake-up time with the count
\* at 1; and the call proceeds, after a bounded delay.
C13_WaitsForWindowEnd ==
    \A c \in Clients : \A i \in Exhausted(c) :
        LET e == req_log[c][i]
        IN  /\ e.at >= e.before.minute_start + Seconds(WindowSeconds)
            /\ e.woke >= e.before.minute_start + Seconds(WindowSeconds)
            /\ e.woke <= e.at
            /\ e.after.minute_start = e.woke
            /\ e.after.request_count = 1
            /\ e.at - e.arrived <= MaxDelay

\* A call found the budget used up in mid-window and went out when the
\* window ended.
C13_WaitedOutWindow ==
    \E c \in Clients : \E i \in Exhausted(c) :
        /\ req_log[c][i].arrived > req_log[c][i].before.minute_start
        /\ req_log[c][i].at > req_log[c][i].arrived

(***************************************************************************)
(* scan_and_notify, cycle after cycle: the scan loop of scan_all_pairs,    *)
(* one pair per step, then the notification loop, one opportunity per      *)
(* step, then the return.                                                  *)
(***************************************************************************)
\* How many of TRADING_PAIRS are scanned
NumPairs == 2

MaxCycles == 2

\* How long send_arbitrage_alert may take, in ticks
MaxSendLatency == 1

SendLatency == 0..MaxSendLatency

ScannedPairs == SubSeq(TRADING_PAIRS, 1, NumPairs)

\* What the two sources quote for a pair, in hundredths: nothing from
\* Nobitex, the same price, prices 2 % apart
Quotes ==
    {[nobitex |-> None, wallex |-> Some(10000)],
     [nobitex |-> Some(10000), wallex |-> Some(10000)],
     [nobitex |-> Some(10000), wallex |-> Some(10200)]}

\* detect_arbitrage_opportunity for each quote, under the shipped threshold
DetectQuote(q) ==
    CHOOSE found \in
        {detect_arbitrage_opportunity("", n, w, t, 0) :
            n \in {PriceFloat(q.nobitex)}, w \in {PriceFloat(q.wallex)},
            t \in {ThresholdFloat(ARBITRAGE_THRESHOLD)}} : TRUE

\* Prices 2 % apart the other way round
ReverseQuote == [nobitex |-> Some(10200), wallex |-> Some(10000)]

DetectTable == [q \in Quotes \cup {ReverseQuote} |-> DetectQuote(q)]

\* detect_arbitrage_opportunity(symbol) when the sources quote q, at time t
DetectAt(symbol, q, t) ==
    IF DetectTable[q].kind = "opportunity"
    THEN [DetectTable[q] EXCEPT !.symbol = symbol, !.timestamp = t]
    ELSE DetectTable[q]

\* The entry of symbol in dict d, if any
Entry(d, symbol) == IF symbol \in DOMAIN d THEN Some(d[symbol]) ELSE None

\* Time between two calls of scan_and_notify: the scheduler's interval, and
\* the cooldown less the second a scan of two pairs takes, a tick less still,
\* and the whole cooldown
NotifyGaps ==
    {Seconds(CHECK_INTERVAL_SECONDS),
     Seconds(notification_cooldown - MinSpacingSeconds) - 1,
     Seconds(notification_cooldown - MinSpacingSeconds),
     Seconds(notification_cooldown)}

InitNotify ==
    /\ CalcUnused
    /\ NewApp
    /\ now \in StartTimes
    /\ client = [c \in Clients |->
                    NewClient(IF c = "nobitex" THEN NOBITEX_RATE_LIMIT
                                               ELSE WALLEX_RATE_LIMIT, now)]
    /\ req_log = [c \in Clients |-> <<>>]
    /\ elapsed = FALSE
    /\ \E bale \in BOOLEAN : NewService(bale)

\* scan_and_notify is entered; scan_all_pairs starts with an empty list
StartScan ==
    /\ pc = "idle"
    /\ Len(cycles) < MaxCycles
    /\ pc' = "scan"
    /\ pos' = 1
    /\ fetched' = <<>>
    /\ opportunities' = <<>>
    /\ elapsed' = FALSE
    /\ UNCHANGED <<appVars, sinkVars, calcVars, rateVars, now, bale_configured, last_notifications,
                   attempts, cycles>>

\* One turn of the loop of scan_all_pairs: detect_arbitrage_opportunity for
\* the next pair, which fetches from Nobitex, then from Wallex; the sources
\* quote one of quotes and the sleeps overrun by one of slacks
ScanPairWith(quotes, slacks) ==
    /\ pc = "scan"
    /\ \E q \in quotes : \E sn, sw \in slacks :
         LET symbol == ScannedPairs[pos]
             rn == rate_limit_check(client["nobitex"], now, sn, sn)
             rw == rate_limit_check(client["wallex"], rn.now, sw, sw)
             found == DetectAt(symbol, q, rw.now)
         IN  /\ client' = [c \in Clients |->
                              IF c = "nobitex" THEN rn.client ELSE rw.client]
             /\ req_log' = [c \in Clients |->
                              IF c = "nobitex"
                              THEN Append(req_log[c], [arrived |-> now, at |-> rn.now])
                              ELSE Append(req_log[c], [arrived |-> rn.now, at |-> rw.now])]
             /\ now' = rw.now
             /\ fetched' = Append(fetched, q)
             /\ opportunities' = IF found.kind = "opportunity"
                                 THEN Append(opportunities, found)
                                 ELSE opportunities
    /\ pos' = IF pos = NumPairs THEN 1 ELSE pos + 1
    /\ pc' = IF pos = NumPairs THEN "notify" ELSE "scan"
    /\ elapsed' = FALSE
    /\ UNCHANGED <<appVars, sinkVars, calcVars, bale_configured, last_notifications, attempts, cycles>>

ScanPair == ScanPairWith(Quotes, Slack)

\* A turn that keeps the time of the last alert by symbol and direction
NotifyNextWith_by_direction(outcomes, latencies) ==
    /\ pc = "notify"
    /\ pos <= Len(opportunities)
    /\ \E outcome \in outcomes : \E latency \in latencies :
         LET symbol == opportunities[pos].symbol
             key == <<symbol, opportunities[pos].buy_exchange>>
             r == send_arbitrage_notification(bale_configured, last_notifications,
                                              key, now, outcome, latency)
         IN  /\ last_notifications' = r.last
             /\ now' = r.now
             /\ attempts' = Append(attempts,
                    [cycle |-> Len(cycles) + 1, symbol |-> symbol, at |-> now,
                     step |-> r.step, end |-> r.now,
                     before |-> Entry(last_notifications, key),
                     after |-> Entry(r.last, key)])
    /\ pos' = pos + 1
    /\ elapsed' = FALSE
    /\ UNCHANGED <<appVars, sinkVars, calcVars, rateVars, bale_configured, pc, fetched,
                   opportunities, cycles>>

\* One turn of the loop of scan_and_notify: send_arbitrage_notification for
\* the next opportunity; the send ends as one of outcomes, after one of
\* latencies
NotifyNextWith(outcomes, latencies) ==
    /\ pc = "notify"
    /\ pos <= Len(opportunities)
    /\ \E outcome \in outcomes : \E latency \in latencies :
         LET symbol == opportunities[pos].symbol
             r == send_arbitrage_notification(bale_configured, last_notifications,
                                              symbol, now, outcome, latency)
         IN  /\ last_notifications' = r.last
             /\ now' = r.now
             /\ attempts' = Append(attempts,
                    [cycle |-> Len(cycles) + 1, symbol |-> symbol, at |-> now,
                     step |-> r.step, end |-> r.now,
                     before |-> Entry(last_notifications, symbol),
                     after |-> Entry(r.last, symbol)])
    /\ pos' = pos + 1
    /\ elapsed' = FALSE
    /\ UNCHANGED <<appVars, sinkVars, calcVars, rateVars, bale_configured, pc, fetched,
                   opportunities, cycles>>

NotifyNext == NotifyNextWith(SendOutcomes, SendLatency)

\* scan_and_notify returns the opportunities
ReturnOpportunities ==
    /\ pc = "notify"
    /\ pos > Len(opportunities)
    /\ cycles' = Append(cycles, [fetched |-> fetched, returned |-> opportunities,
                                 finished |-> now, raised |-> FALSE,
                                 notice |-> "none"])
    /\ pc' = "idle"
    /\ pos' = 0
    /\ elapsed' = FALSE
    /\ UNCHANGED <<appVars, sinkVars, calcVars, rateVars, now, bale_configured, last_notifications,
                   fetched, opportunities, attempts>>

NextNotify ==
    \/ pc = "idle" /\ Len(cycles) < MaxCycles /\ Elapse(NotifyGaps)
    \/ StartScan
    \/ ScanPair
    \/ NotifyNext
    \/ ReturnOpportunities

SpecNotify == InitNotify /\ [][NextNotify]_vars

Attempts == 1..Len(attempts)

Sent(a) == attempts[a].step = "sent"

Dispatched(a) == attempts[a].step \in {"sent", "failed", "raised"}

Failed(a) == attempts[a].step \in {"failed", "raised"}

\* C1: any two alerts dispatched with success for one symbol are at least the
\* cooldown apart: the later one is not begun before the cooldown has passed
\* since the earlier one was delivered.
C1_AlertsCooldownApart ==
    \A a, b \in Attempts :
        (a < b /\ Sent(a) /\ Sent(b) /\ attempts[a].symbol = attempts[b].symbol)
        => attempts[b].at - attempts[a].end >= Seconds(notification_cooldown)

\* A symbol was alerted twice, the second time exactly the cooldown after the
\* first.
C1_TwoAlertsAtCooldown ==
    \E a, b \in Attempts :
        /\ a < b /\ Sent(a) /\ Sent(b)
        /\ attempts[a].symbol = attempts[b].symbol
        /\ attempts[b].at - attempts[a].end = Seconds(notification_cooldown)

\* The next attempt for the symbol of attempt a, if there is one
NextAttempt(a) ==
    {b \in Attempts :
        /\ a < b /\ attempts[b].symbol = attempts[a].symbol
        /\ \A x \in Attempts : (a < x /\ x < b) => attempts[x].symbol # attempts[a].symbol}

\* C5: a dispatch that fails, by returning false or by raising, leaves the
\* cooldown entry of the symbol as it was, so that the next opportunity for
\* the symbol passes the gate again; the entry changes only on a successful
\* dispatch, to the time after it.
C5_FailureKeepsEntry ==
    \A a \in Attempts :
        /\ Failed(a) => attempts[a].after = attempts[a].before
        /\ Failed(a) => \A b \in NextAttempt(a) : attempts[b].step # "cooldown"
        /\ attempts[a].after # attempts[a].before => Sent(a)
        /\ Sent(a) => attempts[a].after = Some(attempts[a].end)

\* A dispatch failed and the next opportunity for the same symbol, in a later
\* cycle, was dispatched with success.
C5_RetryAfterFailure ==
    \E a \in Attempts : \E b \in NextAttempt(a) :
        /\ Failed(a) /\ Sent(b)
        /\ attempts[a].end > attempts[a].at

\* C6: for a symbol alerted at t0, the gate rejects while now - t0 is less
\* than the cooldown and admits once it is the cooldown or more.
C6_GateAtCooldown ==
    \A a \in Attempts :
        (attempts[a].before # None /\ attempts[a].step # "unconfigured")
        => ((attempts[a].at - attempts[a].before[1] < Seconds(notification_cooldown))
              <=> attempts[a].step = "cooldown")

\* An opportunity came one tick before the end of the cooldown of its symbol
\* and was rejected.
C6_RejectedOneTickEarly ==
    \E a \in Attempts :
        /\ attempts[a].before # None
        /\ attempts[a].at - attempts[a].before[1] = Seconds(notification_cooldown) - 1
        /\ attempts[a].step = "cooldown"

\* C7: for a symbol with no entry, the gate admits whatever the time is.
C7_NoEntryAdmitted ==
    \A a \in Attempts :
        (attempts[a].before = None /\ attempts[a].step # "unconfigured")
        => attempts[a].step # "cooldown"

ReturnedIn(i, symbol) ==
    \E k \in 1..Len(cycles[i].returned) : cycles[i].returned[k].symbol = symbol

AttemptsIn(i, symbol) ==
    {a \in Attempts : attempts[a].cycle = i /\ attempts[a].symbol = symbol}

\* Cycle i alerted the pair at position k, cycle j fetched the same prices
\* for it and came to its opportunity within the cooldown of that alert
RepeatWithinCooldown(i, j, k) ==
    /\ i < j
    /\ cycles[i].fetched[k] = cycles[j].fetched[k]
    /\ \E a \in AttemptsIn(i, ScannedPairs[k]) :
         /\ Sent(a)
         /\ \A b \in AttemptsIn(j, ScannedPairs[k]) :
               attempts[b].at - attempts[a].end < Seconds(notification_cooldown)

\* C8: when two cycles see the same profitable prices for a symbol and the
\* second falls within the cooldown of the alert the first sent, both return
\* the opportunity and only the first dispatches an alert.
C8_ReturnedTwiceSentOnce ==
    \A i, j \in 1..Len(cycles) : \A k \in 1..NumPairs :
        RepeatWithinCooldown(i, j, k)
        => /\ ReturnedIn(i, ScannedPairs[k])
           /\ ReturnedIn(j, ScannedPairs[k])
           /\ \A b \in AttemptsIn(j, ScannedPairs[k]) : ~Dispatched(b)

\* Two cycles in a row returned the opportunity of a symbol; the first sent
\* the alert and the second was held back by the cooldown.
C8_SecondCycleSuppressed ==
    \E i \in 1..(Len(cycles) - 1) : \E k \in 1..NumPairs :
        /\ RepeatWithinCooldown(i, i + 1, k)
        /\ ReturnedIn(i + 1, ScannedPairs[k])
        /\ \E b \in AttemptsIn(i + 1, ScannedPairs[k]) : attempts[b].step = "cooldown"
(***************************************************************************)
(* scan_all_pairs on its own, with every answer the two exchanges can      *)
(* give: one pair per step, then the return.                               *)
(***************************************************************************)
MaxScans == 1

\* The price field of the latest trade
PriceFields ==
    {PriceField("missing", 0), PriceField("null", 0), PriceField("text", 0)}
        \cup {PriceField("number", c) : c \in PriceTexts}

\* A RequestException, a body that is not JSON, a status that is not the
\* good one, no list of trades, an empty list, and a latest trade with each
\* price field
Responses ==
    {Response("network_error", FALSE, FALSE, <<>>),
     Response("not_json", FALSE, FALSE, <<>>),
     Response("body", FALSE, FALSE, <<>>),
     Response("body", TRUE, FALSE, <<>>),
     Response("body", TRUE, TRUE, <<>>)}
        \cup {Response("body", TRUE, TRUE, <<p>>) : p \in PriceFields}

InitScan ==
    /\ CalcUnused
    /\ NewApp
    /\ NewService(FALSE)
    /\ now \in StartTimes
    /\ client = [c \in Clients |->
                    NewClient(IF c = "nobitex" THEN NOBITEX_RATE_LIMIT
                                               ELSE WALLEX_RATE_LIMIT, now)]
    /\ req_log = [c \in Clients |-> <<>>]
    /\ elapsed = FALSE

\* scan_all_pairs is entered
BeginScan == Len(cycles) < MaxScans /\ StartScan

\* What req_log keeps of the calls of get_latest_price one turn made on a
\* client: with the budget before, the answer of the exchange, how many rate
\* checks and requests the call made, and what it ended with
CallEntries(calls, arrived, before, resp) ==
    [k \in 1..Len(calls) |->
        [arrived |-> arrived, at |-> calls[k].now,
         woke |-> calls[k].checks[1].woke,
         before |-> before, after |-> calls[k].client, resp |-> resp,
         checks |-> Len(calls[k].checks), requests |-> Len(calls[k].requests),
         outcome |-> calls[k].outcome]]

\* One turn of the loop of scan_all_pairs: detect_arbitrage_opportunity for
\* the next pair, with the answers resp_n and resp_w of the two exchanges
ScanSymbol ==
    /\ pc = "scan"
    /\ \E resp_n, resp_w \in Responses : \E slack_n, slack_w \in Slack :
       \E symbol \in {ScannedPairs[pos]} :
       \E data \in {get_price_data(client, now, slack_n, slack_w, resp_n, resp_w)} :
       \E turn \in {scan_turn(opportunities, pos, NumPairs, symbol, data)} :
             /\ client' = data.client
             /\ now' = data.now
             /\ req_log' =
                  [c \in Clients |->
                      req_log[c] \o
                      IF c = "nobitex"
                      THEN CallEntries(data.calls[c], now, client[c], resp_n)
                      ELSE CallEntries(data.calls[c], data.calls["nobitex"][1].now,
                                       client[c], resp_w)]
             /\ fetched' = Append(fetched,
                    [symbol |-> symbol,
                     outcomes |-> [c \in Clients |->
                         [k \in 1..Len(data.calls[c]) |-> data.calls[c][k].outcome]],
                     found |-> turn.found, caught |-> turn.caught])
             /\ opportunities' = turn.opportunities
             /\ pos' = turn.pos
             /\ pc' = IF turn.pos > NumPairs THEN "scanned" ELSE "scan"
    /\ elapsed' = FALSE
    /\ UNCHANGED <<appVars, sinkVars, calcVars, bale_configured, last_notifications, attempts, cycles>>

\* scan_all_pairs returns its list
ReturnScan ==
    /\ pc = "scanned"
    /\ cycles' = Append(cycles, [fetched |-> fetched, returned |-> opportunities,
                                 finished |-> now])
    /\ pc' = "idle"
    /\ pos' = 0
    /\ elapsed' = FALSE
    /\ UNCHANGED <<appVars, sinkVars, calcVars, rateVars, now, bale_configured, last_notifications,
                   fetched, opportunities, attempts>>

NextScan == BeginScan \/ ScanSymbol \/ ReturnScan

SpecScan == InitScan /\ [][NextScan]_vars

\* The turns of the scan so far
Turns == 1..Len(fetched)

\* Source c answered the turn with None
Unavailable(e, c) ==
    /\ Len(e.outcomes[c]) = 1
    /\ ~e.outcomes[c][1].raised
    /\ e.outcomes[c][1].value = None

\* The loop went on after turn i: to the next pair while pairs are left, and
\* by the return every configured pair has had its one turn, in order
WentOn(i) ==
    /\ pos = 0 \/ pos > i
    /\ \A j \in Turns : fetched[j].symbol = ScannedPairs[j]
    /\ pc = "scan" => Len(fetched) < NumPairs /\ pos = Len(fetched) + 1
    /\ pc \in {"scanned", "idle"} => Len(fetched) = NumPairs

\* What the turns of f found, in the order of the turns
Detected(f) ==
    LET hits == SelectSeq(f, LAMBDA e : e.found.kind = "opportunity")
    IN  [k \in 1..Len(hits) |-> hits[k].found]

\* C14: a symbol for which either source returns None contributes no
\* opportunity, and every later symbol is still scanned.
C14_MissSkipsSymbolOnly ==
    \A i \in Turns :
        (Unavailable(fetched[i], "nobitex") \/ Unavailable(fetched[i], "wallex"))
        => /\ \A k \in 1..Len(opportunities) :
                  opportunities[k].symbol # fetched[i].symbol
           /\ WentOn(i)

\* The first pair had no price from one source, and the scan went on to find
\* an opportunity for the second and returned it.
C14_FoundAfterMiss ==
    /\ Len(cycles) = 1 /\ Len(fetched) = NumPairs
    /\ Unavailable(fetched[1], "wallex")
    /\ fetched[2].found.kind = "opportunity"
    /\ cycles[1].returned = <<fetched[2].found>>

\* C15: when the processing of a symbol raises, scan_all_pairs catches it,
\* gives every remaining symbol its one turn, and returns the opportunities
\* of the symbols that did not fail.
C15_ErrorSkipsSymbolOnly ==
    /\ \A i \in Turns :
          fetched[i].caught
          => /\ fetched[i].found.kind # "opportunity"
             /\ WentOn(i)
             /\ opportunities = Detected(fetched)
    /\ \A n \in 1..Len(cycles) :
          (\E i \in 1..Len(cycles[n].fetched) : cycles[n].fetched[i].caught)
          => /\ Len(cycles[n].fetched) = NumPairs
             /\ cycles[n].returned = Detected(cycles[n].fetched)

\* The fetch of the first pair raised, and the scan went on to find an
\* opportunity for the second and returned it.
C15_FoundAfterError ==
    /\ Len(cycles) = 1 /\ Len(cycles[1].fetched) = NumPairs
    /\ cycles[1].fetched[1].caught
    /\ cycles[1].fetched[2].found.kind = "opportunity"
    /\ cycles[1].returned = <<cycles[1].fetched[2].found>>

\* The position of a symbol in the configured list
PairIndex(symbol) == CHOOSE j \in 1..Len(TRADING_PAIRS) : TRADING_PAIRS[j] = symbol

\* C16: the list scan_all_pairs returns holds exactly the opportunities
\* detected in this cycle, at most one per position of the configured
\* list, in the order of that list.
C16_ReturnedInOrder ==
    \A n \in 1..Len(cycles) :
        LET returned == cycles[n].returned
        IN  /\ returned = Detected(cycles[n].fetched)
            /\ \A k \in 1..Len(returned) : \A l \in 1..Len(returned) :
                   k < l => PairIndex(returned[k].symbol) < PairIndex(returned[l].symbol)

\* A scan found an opportunity for both pairs and returned the two in the
\* order of the pairs.
C16_TwoReturnedInOrder ==
    /\ Len(cycles) = 1
    /\ Len(cycles[1].returned) = 2
    /\ cycles[1].returned[1].symbol = ScannedPairs[1]
    /\ cycles[1].returned[2].symbol = ScannedPairs[2]

\* The exchange answered with one of the failures of transport or parsing
FailedResponse(resp) ==
    \/ resp.kind # "body"
    \/ ~resp.ok
    \/ ~resp.has_trades
    \/ resp.trades = <<>>
    \/ resp.trades[1].tag # "number"

\* C17: get_latest_price never raises; a network error, a timeout, a
\* rejected status, a body that is not JSON, an error status, an empty or
\* absent trade list, and a missing, null or non-numeric price field all
\* give None.
C17_FailuresGiveNone ==
    \A c \in Clients : \A i \in 1..Len(req_log[c]) :
        /\ ~req_log[c][i].outcome.raised
        /\ FailedResponse(req_log[c][i].resp) => req_log[c][i].outcome.value = None

\* The window of the budget that call e found had not run out
SameWindow(e) ==
    /\ e.arrived - e.before.minute_start < Seconds(WindowSeconds)
    /\ e.before.request_count < e.before.rate_limit

\* C18: a call of get_latest_price makes exactly one rate check and at most
\* one request, and takes one unit of the budget of the window, whatever
\* the answer.
C18_OneCheckOneRequest ==
    \A c \in Clients : \A i \in 1..Len(req_log[c]) :
        LET e == req_log[c][i]
        IN  /\ e.checks = 1
            /\ e.requests <= 1
            /\ e.after.request_count =
                   IF SameWindow(e) THEN e.before.request_count + 1 ELSE 1
            /\ i > 1 => e.before = req_log[c][i - 1].after

\* A request failed in transport and still took a unit of the budget: the
\* next call of the client found one request counted and made it two.
C18_FailureCounted ==
    \E c \in Clients : \E i \in 1..(Len(req_log[c]) - 1) :
        /\ req_log[c][i].resp.kind = "network_error"
        /\ req_log[c][i].after.request_count = 1
        /\ req_log[c][i + 1].before.request_count = 1
        /\ req_log[c][i + 1].after.request_count = 2

\* C19: get_latest_price never returns zero or a negative number.
C19_ReturnsPositive ==
    \A c \in Clients : \A i \in 1..Len(req_log[c]) :
        req_log[c][i].outcome.value # None
        => /\ ~req_log[c][i].outcome.value[1].neg
           /\ ~FIsZero(req_log[c][i].outcome.value[1])

(***************************************************************************)
(* ArbitrageApp: start() with its main loop, the scan cycle the scheduler  *)
(* runs, stop(), and the signal handler, which runs stop() between two     *)
(* steps of the main thread.  scan_and_notify inside a cycle is the steps  *)
(* StartScan, ScanPair, NotifyNext and ReturnOpportunities above.          *)
(***************************************************************************)
MaxStarts == 2

MaxStops == 2

MaxAppCycles == 1

\* A message handed to the notifier at time t
Report(kind, t, scans, found) ==
    [kind |-> kind, at |-> t, scan_count |-> scans, total_opportunities |-> found]

\* stop() that shuts down whether or not the application is running
stop_unguarded(is_running, bale, sent, t, scans, found) ==
    [running |-> FALSE,
     reports |-> IF bale THEN Append(sent, Report("shutdown", t, scans, found))
                 ELSE sent,
     stopped |-> TRUE]

\* stop() at time t: nothing when not running; else running becomes False
\* and the shutdown message goes to the notifier, if there is one
stop(is_running, bale, sent, t, scans, found) ==
    IF ~is_running
    THEN [running |-> is_running, reports |-> sent, stopped |-> FALSE]
    ELSE [running |-> FALSE,
          reports |-> IF bale THEN Append(sent, Report("shutdown", t, scans, found))
                      ELSE sent,
          stopped |-> TRUE]

\* The frame of the steps of the application outside a scan
AppOnly == UNCHANGED <<sinkVars, calcVars, rateVars, elapsed, notifyVars>>

\* start() that schedules the first run of the job for at once
Start_at_once ==
    /\ main_pc \in {"init", "returned"}
    /\ Len(jobs) < MaxStarts
    /\ running' = TRUE
    /\ start_time' = Some(now)
    /\ reports' = IF bale_configured
                  THEN Append(reports, Report("startup", now, scan_count,
                                              total_opportunities))
                  ELSE reports
    /\ jobs' = Append(jobs, now)
    /\ main_pc' = "loop"
    /\ events' = Append(events, "start")
    /\ UNCHANGED <<now, scan_count, total_opportunities, last_scan_time, runnable>>
    /\ AppOnly

\* start() is called, by main() or again after it has returned: up to the
\* main loop
Start ==
    /\ main_pc \in {"init", "returned"}
    /\ Len(jobs) < MaxStarts
    /\ running' = TRUE
    /\ start_time' = Some(now)
    /\ reports' = IF bale_configured
                  THEN Append(reports, Report("startup", now, scan_count,
                                              total_opportunities))
                  ELSE reports
    /\ jobs' = Append(jobs, now + Seconds(CHECK_INTERVAL_SECONDS))
    /\ main_pc' = "loop"
    /\ events' = Append(events, "start")
    /\ UNCHANGED <<now, scan_count, total_opportunities, last_scan_time, runnable>>
    /\ AppOnly

\* `while self.running`
LoopTest ==
    /\ main_pc = "loop"
    /\ main_pc' = IF running THEN "pending" ELSE "finally"
    /\ UNCHANGED <<now, running, start_time, scan_count, total_opportunities,
                   last_scan_time, jobs, runnable, reports, events>>
    /\ AppOnly

\* The jobs that are due, the earliest first
RECURSIVE SortedDue(_)
SortedDue(due) ==
    IF due = {} THEN <<>>
    ELSE LET first == CHOOSE j \in due :
                          \A k \in due : jobs[j] < jobs[k] \/ (jobs[j] = jobs[k] /\ j <= k)
         IN  <<first>> \o SortedDue(due \ {first})

\* schedule.run_pending() picks the jobs it will run
RunPending ==
    /\ main_pc = "pending"
    /\ runnable' = SortedDue({j \in 1..Len(jobs) : jobs[j] <= now})
    /\ main_pc' = "jobs"
    /\ UNCHANGED <<now, running, start_time, scan_count, total_opportunities,
                   last_scan_time, jobs, reports, events>>
    /\ AppOnly

\* run_pending has run its jobs
JobsDone ==
    /\ main_pc = "jobs"
    /\ runnable = <<>>
    /\ main_pc' = "sleep"
    /\ UNCHANGED <<now, running, start_time, scan_count, total_opportunities,
                   last_scan_time, jobs, runnable, reports, events>>
    /\ AppOnly

\* The job is run again an interval after it returned
Rescheduled == [jobs EXCEPT ![Head(runnable)] = now + Seconds(CHECK_INTERVAL_SECONDS)]

\* _scan_cycle without its test of running: the cycle begins all the same
SkipCycle_unguarded ==
    /\ main_pc = "jobs"
    /\ runnable # <<>>
    /\ ~running
    /\ scan_count < MaxCycles
    /\ scan_count' = scan_count + 1
    /\ last_scan_time' = Some(now)
    /\ main_pc' = "cycle"
    /\ UNCHANGED <<now, running, start_time, total_opportunities, jobs, runnable,
                   reports, events>>
    /\ AppOnly

\* _scan_cycle when the application is no longer running: it returns at once
SkipCycle ==
    /\ main_pc = "jobs"
    /\ runnable # <<>>
    /\ ~running
    /\ jobs' = Rescheduled
    /\ runnable' = Tail(runnable)
    /\ UNCHANGED <<now, running, start_time, scan_count, total_opportunities,
                   last_scan_time, main_pc, reports, events>>
    /\ AppOnly

\* _scan_cycle begun whenever the application is running, be the previous
\* cycle over or not
CycleBeginUpTo_overlapping(max) ==
    /\ main_pc \in {"jobs", "cycle"}
    /\ runnable # <<>>
    /\ running
    /\ scan_count < max
    /\ scan_count' = scan_count + 1
    /\ last_scan_time' = Some(now)
    /\ main_pc' = "cycle"
    /\ UNCHANGED <<now, running, start_time, total_opportunities, jobs, runnable,
                   reports, events>>
    /\ AppOnly

\* _scan_cycle, up to the call of scan_and_notify; max cycles are followed
CycleBeginUpTo(max) ==
    /\ main_pc = "jobs"
    /\ runnable # <<>>
    /\ running
    /\ scan_count < max
    /\ scan_count' = scan_count + 1
    /\ last_scan_time' = Some(now)
    /\ main_pc' = "cycle"
    /\ UNCHANGED <<now, running, start_time, total_opportunities, jobs, runnable,
                   reports, events>>
    /\ AppOnly

CycleBegin == CycleBeginUpTo(MaxAppCycles)

\* A step of scan_and_notify within the cycle
CycleScan ==
    /\ main_pc = "cycle"
    /\ \/ Len(cycles) < scan_count /\ StartScan
       \/ ScanPair
       \/ NotifyNext
       \/ ReturnOpportunities

\* _scan_cycle that gives up as soon as the application is no longer
\* running
CycleEnd_abandoning ==
    /\ main_pc = "cycle"
    /\ ~running \/ (pc = "idle" /\ Len(cycles) = scan_count)
    /\ total_opportunities' =
           IF Len(cycles) = scan_count
           THEN total_opportunities + Len(cycles[Len(cycles)].returned)
           ELSE total_opportunities
    /\ jobs' = Rescheduled
    /\ runnable' = Tail(runnable)
    /\ main_pc' = "jobs"
    /\ UNCHANGED <<now, running, start_time, scan_count, last_scan_time, reports,
                   events>>
    /\ AppOnly

\* _scan_cycle that counts the alerts sent instead of the opportunities
\* returned
CycleEnd_counting_alerts ==
    /\ main_pc = "cycle"
    /\ pc = "idle"
    /\ Len(cycles) = scan_count
    /\ total_opportunities' =
           total_opportunities
           + Cardinality({a \in 1..Len(attempts) :
                             attempts[a].cycle = scan_count /\ attempts[a].step = "sent"})
    /\ jobs' = Rescheduled
    /\ runnable' = Tail(runnable)
    /\ main_pc' = "jobs"
    /\ UNCHANGED <<now, running, start_time, scan_count, last_scan_time, reports,
                   events>>
    /\ AppOnly

\* _scan_cycle after scan_and_notify has returned its opportunities
CycleEnd ==
    /\ main_pc = "cycle"
    /\ pc = "idle"
    /\ Len(cycles) = scan_count
    /\ total_opportunities' = total_opportunities + Len(cycles[Len(cycles)].returned)
    /\ jobs' = Rescheduled
    /\ runnable' = Tail(runnable)
    /\ main_pc' = "jobs"
    /\ UNCHANGED <<now, running, start_time, scan_count, last_scan_time, reports,
                   events>>
    /\ AppOnly

\* When the next job is due
NextDue == jobs[CHOOSE j \in 1..Len(jobs) : \A k \in 1..Len(jobs) : jobs[j] <= jobs[k]]

\* A sleep during which no time passes
LoopSleepUpTo_timeless(max) ==
    /\ main_pc = "sleep"
    /\ scan_count < max \/ ~running
    /\ now' = now
    /\ main_pc' = "loop"
    /\ UNCHANGED <<running, start_time, scan_count, total_opportunities,
                   last_scan_time, jobs, runnable, reports, events>>
    /\ UNCHANGED <<sinkVars, calcVars, rateVars, notifyVars>>
    /\ elapsed' = FALSE

\* time.sleep(1), and with it the further turns of the loop in which no job
\* is due; max cycles are followed
LoopSleepUpTo(max) ==
    /\ main_pc = "sleep"
    /\ scan_count < max \/ ~running
    /\ \E slack \in Slack :
         now' = IF running /\ NextDue > now + Seconds(1)
                THEN NextDue + slack
                ELSE now + Seconds(1) + slack
    /\ main_pc' = "loop"
    /\ UNCHANGED <<running, start_time, scan_count, total_opportunities,
                   last_scan_time, jobs, runnable, reports, events>>
    /\ UNCHANGED <<sinkVars, calcVars, rateVars, notifyVars>>
    /\ elapsed' = FALSE

LoopSleep == LoopSleepUpTo(MaxAppCycles)

\* `finally: self.stop()`, and start() returns
FinallyStop ==
    /\ main_pc = "finally"
    /\ \E r \in {stop(running, bale_configured, reports, now, scan_count,
                      total_opportunities)} :
         /\ running' = r.running
         /\ reports' = r.reports
    /\ main_pc' = "returned"
    /\ UNCHANGED <<now, start_time, scan_count, total_opportunities,
                   last_scan_time, jobs, runnable, events>>
    /\ AppOnly

\* How many times stop() has been called by the caller or the handler
Stops == Len(SelectSeq(events, LAMBDA e : e # "start"))

\* stop() is called while start() is not on the stack
CallStop ==
    /\ main_pc \in {"init", "returned"}
    /\ Stops < MaxStops
    /\ \E r \in {stop(running, bale_configured, reports, now, scan_count,
                      total_opportunities)} :
         /\ running' = r.running
         /\ reports' = r.reports
    /\ events' = Append(events, "stop")
    /\ UNCHANGED <<now, start_time, scan_count, total_opportunities,
                   last_scan_time, main_pc, jobs, runnable>>
    /\ AppOnly

\* SIGINT or SIGTERM is delivered: _signal_handler runs stop()
Signal ==
    /\ Stops < MaxStops
    /\ \E r \in {stop(running, bale_configured, reports, now, scan_count,
                      total_opportunities)} :
         /\ running' = r.running
         /\ reports' = r.reports
    /\ events' = Append(events, "signal")
    /\ UNCHANGED <<now, start_time, scan_count, total_opportunities,
                   last_scan_time, main_pc, jobs, runnable>>
    /\ AppOnly

InitApp ==
    /\ CalcUnused
    /\ NewApp
    /\ now \in StartTimes
    /\ client = [c \in Clients |->
                    NewClient(IF c = "nobitex" THEN NOBITEX_RATE_LIMIT
                                               ELSE WALLEX_RATE_LIMIT, now)]
    /\ req_log = [c \in Clients |-> <<>>]
    /\ elapsed = FALSE
    /\ \E bale \in BOOLEAN : NewService(bale)

NextApp ==
    \/ Start
    \/ LoopTest
    \/ RunPending
    \/ JobsDone
    \/ SkipCycle
    \/ CycleBegin
    \/ CycleScan
    \/ CycleEnd
    \/ LoopSleep
    \/ FinallyStop
    \/ CallStop
    \/ Signal

SpecApp == InitApp /\ [][NextApp]_vars

\* Idle before the first start(), Running while running is set, Stopped
\* once it has been cleared again
Phase ==
    IF running THEN "Running"
    ELSE IF start_time = None THEN "Idle" ELSE "Stopped"

\* C20: the lifecycle only moves forward, Idle to Running to Stopped:
\* start() moves Idle to Running and records the start time, stop() moves
\* Running to Stopped, and once stopped the application is never Running
\* again, whatever the calls of start() and stop().
C20_LifecycleForward ==
    [][/\ Phase' # Phase
          => <<Phase, Phase'>> \in {<<"Idle", "Running">>, <<"Running", "Stopped">>}
       /\ Phase = "Idle" /\ Phase' = "Running" => start_time' = Some(now)
       /\ Phase = "Stopped" => Phase' # "Running"]_vars


\* The shutdown messages among the reports
Shutdowns == SelectSeq(reports, LAMBDA r : r.kind = "shutdown")

\* The step is a call of stop() by the caller, the handler or the finally
\* clause
StopCalled ==
    \/ Len(events') > Len(events) /\ events'[Len(events')] # "start"
    \/ main_pc = "finally" /\ main_pc' = "returned"

\* C21: stop() is idempotent: called when the application has been stopped
\* already, or was never started, it changes no field of the application
\* and sends no message, so that a run produces one shutdown message at
\* most, whoever calls stop(): the handler, the finally clause or the
\* caller.
C21_StopIdempotent ==
    [][/\ StopCalled /\ ~running
          => UNCHANGED <<running, start_time, scan_count, total_opportunities,
                         last_scan_time, jobs, runnable, reports>>
       /\ Len(Shutdowns') <= Len(SelectSeq(events', LAMBDA e : e = "start"))
       /\ \A i \in 2..Len(reports') :
              reports'[i].kind = "shutdown" => reports'[i - 1].kind # "shutdown"]_vars

\* The handler has run stop() twice in one run, and the finally clause once
\* more, and one shutdown message went out
C21_StoppedThriceOneReport ==
    /\ bale_configured
    /\ events = <<"start", "signal", "signal">>
    /\ main_pc = "returned"
    /\ Len(Shutdowns) = 1

(***************************************************************************)
(* main(): one ArbitrageApp, started once.  The scheduler's job runs cycle *)
(* after cycle; a signal may arrive at any point; scan_and_notify may meet *)
(* an exception that none of the inner handlers catches.                   *)
(***************************************************************************)
MaxMainCycles == 2

\* What the two sources quote for a pair: the same price, prices 2 % apart
MainQuotes ==
    {[nobitex |-> Some(10000), wallex |-> Some(10000)],
     [nobitex |-> Some(10000), wallex |-> Some(10200)]}

\* A send that takes longer than the scheduler's interval
LongSend == Seconds(CHECK_INTERVAL_SECONDS) + 1

\* An exception escapes scan_all_pairs and goes on to the main loop
ScanRaises_propagating ==
    /\ pc = "scan"
    /\ cycles' = Append(cycles, [fetched |-> fetched, returned |-> <<>>,
                                 finished |-> now, raised |-> TRUE,
                                 notice |-> "none"])
    /\ main_pc' = "finally"
    /\ pc' = "idle"
    /\ pos' = 0
    /\ elapsed' = FALSE
    /\ UNCHANGED <<running, start_time, scan_count, total_opportunities,
                   last_scan_time, jobs, runnable, reports, events>>
    /\ UNCHANGED <<sinkVars, calcVars, rateVars, now, bale_configured, last_notifications,
                   fetched, opportunities, attempts>>

\* scan_and_notify that reports the exception and lets it go on to the
\* handler of _scan_cycle, which reports it again
ScanRaises_reported_twice ==
    /\ pc = "scan"
    /\ reports' = IF bale_configured
                  THEN reports \o
                       <<Report("error", now, scan_count, total_opportunities),
                         Report("error", now, scan_count, total_opportunities)>>
                  ELSE reports
    /\ \E outcome \in {"ok", "failed"} :
         cycles' = Append(cycles, [fetched |-> fetched, returned |-> <<>>,
                                   finished |-> now, raised |-> TRUE,
                                   notice |-> IF bale_configured THEN outcome
                                              ELSE "none"])
    /\ pc' = "idle"
    /\ pos' = 0
    /\ elapsed' = FALSE
    /\ UNCHANGED <<running, start_time, scan_count, total_opportunities,
                   last_scan_time, main_pc, jobs, runnable, events>>
    /\ UNCHANGED <<sinkVars, calcVars, rateVars, now, bale_configured, last_notifications,
                   fetched, opportunities, attempts>>

\* scan_and_notify catches an exception that escaped scan_all_pairs: it
\* hands an error message to the notifier, if there is one, which sends it
\* or fails to, and returns an empty list
ScanRaises ==
    /\ pc = "scan"
    /\ reports' = IF bale_configured
                  THEN Append(reports, Report("error", now, scan_count,
                                              total_opportunities))
                  ELSE reports
    /\ \E outcome \in {"ok", "failed"} :
         cycles' = Append(cycles, [fetched |-> fetched, returned |-> <<>>,
                                   finished |-> now, raised |-> TRUE,
                                   notice |-> IF bale_configured THEN outcome
                                              ELSE "none"])
    /\ pc' = "idle"
    /\ pos' = 0
    /\ elapsed' = FALSE
    /\ UNCHANGED <<running, start_time, scan_count, total_opportunities,
                   last_scan_time, main_pc, jobs, runnable, events>>
    /\ UNCHANGED <<sinkVars, calcVars, rateVars, now, bale_configured, last_notifications,
                   fetched, opportunities, attempts>>

\* main() calls start()
MainStart == main_pc = "init" /\ Start

MainCycleBegin == CycleBeginUpTo(MaxMainCycles)

\* A step of scan_and_notify within the cycle
MainCycleScan ==
    /\ main_pc = "cycle"
    /\ \/ Len(cycles) < scan_count /\ StartScan
       \/ ScanPairWith(MainQuotes, {0})
       \/ NotifyNextWith({"ok", "failed"}, {0, LongSend})
       \/ ReturnOpportunities
       \/ ScanRaises

MainLoopSleep == LoopSleepUpTo(MaxMainCycles)

InitMain == InitApp /\ now = Seconds(StartLateSeconds)

\* The steps of the main thread
MainThread ==
    \/ MainStart
    \/ LoopTest
    \/ RunPending
    \/ JobsDone
    \/ SkipCycle
    \/ MainCycleBegin
    \/ MainCycleScan
    \/ CycleEnd
    \/ MainLoopSleep
    \/ FinallyStop

NextMain ==
    \/ MainThread
    \/ CallStop
    \/ Signal

SpecMain == InitMain /\ [][NextMain]_vars

\* C22: one scan cycle at most is in flight at any time: a cycle begins
\* only when every cycle begun before it has returned, however long the
\* cycles last against the scheduler's interval.
C22_OneCycleAtATime ==
    [][/\ scan_count' > scan_count
          => pc = "idle" /\ main_pc # "cycle" /\ Len(cycles) = scan_count
       /\ scan_count' - Len(cycles') \in {0, 1}]_vars

\* The second cycle is under way after a first that outlasted the interval
C22_SecondAfterLongCycle ==
    /\ scan_count = 2 /\ Len(cycles) = 1 /\ pc = "scan"
    /\ \E a \in 1..Len(attempts) :
           attempts[a].cycle = 1 /\ attempts[a].end - attempts[a].at = LongSend

\* How many opportunities the first n calls of scan_and_notify returned
RECURSIVE ReturnedUpTo(_)
ReturnedUpTo(n) ==
    IF n = 0 THEN 0 ELSE ReturnedUpTo(n - 1) + Len(cycles[n].returned)

\* The calls of send_arbitrage_notification of cycle n
AttemptsOf(n) == {a \in 1..Len(attempts) : attempts[a].cycle = n}

\* The main loop has been left
LoopExited == main_pc \in {"finally", "returned"}

\* C23: a stop() that arrives while a scan cycle is in flight does not
\* abort the cycle: before the loop exits every remaining symbol is
\* scanned, every opportunity goes through send_arbitrage_notification,
\* with the cooldown entry of each alert sent brought up to date, and the
\* total of opportunities takes in the cycle's.
C23_CycleRunsToItsEnd ==
    /\ LoopExited
       => /\ pc = "idle" /\ Len(cycles) = scan_count
          /\ total_opportunities = ReturnedUpTo(Len(cycles))
    /\ \A n \in 1..Len(cycles) :
           ~cycles[n].raised
           => /\ Len(cycles[n].fetched) = NumPairs
              /\ Cardinality(AttemptsOf(n)) = Len(cycles[n].returned)
              /\ \A a \in AttemptsOf(n) :
                     attempts[a].step = "sent"
                     => attempts[a].after = Some(attempts[a].end)

\* A signal came after the first pair of a cycle was scanned and before
\* the second was; the cycle went on to find two opportunities and to send
\* an alert, the total took them in, and the loop has exited
C23_StoppedMidCycle ==
    /\ bale_configured /\ main_pc = "returned"
    /\ Len(cycles) = 1 /\ ~cycles[1].raised
    /\ total_opportunities = 2
    /\ Len(req_log["nobitex"]) = 2
    /\ \E r \in 1..Len(reports) :
           /\ reports[r].kind = "shutdown"
           /\ reports[r].scan_count = 1 /\ reports[r].total_opportunities = 0
           /\ reports[r].at = req_log["wallex"][1].at
           /\ reports[r].at < req_log["nobitex"][2].at
           /\ \E a \in AttemptsOf(1) :
                  attempts[a].step = "sent" /\ attempts[a].at > reports[r].at

\* stop() has taken effect
Stopped == ~running /\ start_time # None

\* C24: once stop() has been called no scan cycle begins: the count of
\* scans and the time of the last scan stay as they are, a cycle the
\* scheduler fires returns without a fetch or an alert and leaves the total
\* of opportunities alone, and the main loop, at its next test after the
\* one-second sleep, exits.
C24_NoCycleAfterStop ==
    [][Stopped
       => /\ scan_count' = scan_count /\ last_scan_time' = last_scan_time
          /\ main_pc' = "cycle" => main_pc = "cycle"
          /\ main_pc # "cycle"
             => UNCHANGED <<total_opportunities, req_log, attempts, cycles,
                            last_notifications>>
          /\ main_pc = "loop" => main_pc' \in {"loop", "finally"}
          /\ main_pc = "sleep" => main_pc' \in {"sleep", "loop"}]_vars

\* The job came due after a signal had stopped the application: it was
\* skipped and set for an interval later, and the loop has exited with no
\* scan made
C24_FiredAfterStop ==
    /\ main_pc = "returned" /\ Stopped
    /\ "signal" \in {events[i] : i \in 1..Len(events)}
    /\ scan_count = 0 /\ last_scan_time = None /\ total_opportunities = 0
    /\ jobs[1] > Seconds(StartLateSeconds + 2 * CHECK_INTERVAL_SECONDS)
    /\ req_log["nobitex"] = <<>> /\ attempts = <<>>

\* scan_and_notify ends with this step, on an exception
Raising == Len(cycles') > Len(cycles) /\ cycles'[Len(cycles')].raised

\* C25: an exception that escapes the scan during a cycle is caught: an
\* error message is handed to the notifier, whose failure to send it is
\* swallowed too, and the application stays running: the exception never
\* reaches the main loop, which is left only once stop() has been called.
C25_ScanExceptionContained ==
    [][/\ Raising
          => /\ running' = running /\ main_pc' = "cycle" /\ pc' = "idle"
             /\ cycles'[Len(cycles')].returned = <<>>
             /\ bale_configured
                => /\ cycles'[Len(cycles')].notice \in {"ok", "failed"}
                   /\ reports' = Append(reports, Report("error", now, scan_count,
                                                        total_opportunities))
       /\ main_pc' = "finally" => ~running']_vars

\* The scan of a cycle raised with the application running, the error
\* message could not be sent, and the main loop is back at its test, the
\* application running still
C25_RunningAfterException ==
    /\ bale_configured /\ running /\ main_pc = "loop"
    /\ Len(cycles) = 1 /\ cycles[1].raised /\ cycles[1].notice = "failed"
    /\ reports[Len(reports)].kind = "error"

\* How many opportunities the scan of cycle n detected
DetectedIn(n) ==
    Cardinality({k \in 1..Len(cycles[n].fetched) :
                    DetectTable[cycles[n].fetched[k]].kind = "opportunity"})

\* What cycle n adds to the total: the opportunities detected, and nothing
\* when the scan raised
RECURSIVE CountedUpTo(_)
CountedUpTo(n) ==
    IF n = 0 THEN 0
    ELSE CountedUpTo(n - 1) + (IF cycles[n].raised THEN 0 ELSE DetectedIn(n))

\* C26: after n scan cycles the count of scans is n and the total of
\* opportunities is the sum of the opportunities the cycles detected: a
\* cycle that detects none counts as a scan all the same, and a cycle whose
\* scan raised counts as one scan and adds no opportunity.
C26_CountersFollowCycles ==
    /\ scan_count - Len(cycles) \in {0, 1}
    /\ main_pc # "cycle"
       => /\ scan_count = Len(cycles)
          /\ total_opportunities = CountedUpTo(Len(cycles))

\* Two cycles are over: the scan of the first raised after it had detected
\* an opportunity, the second detected one and none of its alerts was sent
C26_FailedThenFound ==
    /\ main_pc = "jobs" /\ scan_count = 2 /\ Len(cycles) = 2
    /\ cycles[1].raised /\ DetectedIn(1) = 1
    /\ ~cycles[2].raised /\ DetectedIn(2) = 1
    /\ total_opportunities = 1
    /\ \A a \in 1..Len(attempts) : attempts[a].step # "sent"

\* The main thread goes on running: it takes its next step whenever it has
\* one
SpecMainFair == SpecMain /\ WF_vars(MainThread)

\* C27: as long as stop() has not been called the scan cycles go on: after
\* any cycle, be it one with a symbol that failed, an alert that failed or
\* a scan that raised, the next cycle begins in the end.
C27_CyclesGoOn ==
    \A n \in 0..(MaxMainCycles - 1) :
        (scan_count = n /\ Stops = 0) ~> (scan_count = n + 1 \/ Stops > 0)

\* No stop() so far, and the second cycle has begun after a first whose
\* scan raised
C27_NextAfterFailedCycle ==
    /\ Stops = 0 /\ running
    /\ scan_count = 2 /\ main_pc = "cycle"
    /\ Len(cycles) = 1 /\ cycles[1].raised

(***************************************************************************)
(* The BaleNotifier on its own: calls of send_message and of               *)
(* send_arbitrage_alert, with every outcome of the HTTP exchange.          *)
(***************************************************************************)
MaxPosts == 2

\* The outcomes of the HTTP exchange
HttpExchanges ==
    {[error |-> "none", status |-> s] : s \in {200, 400, 500}}
    \cup {[error |-> e, status |-> 0] : e \in {"Timeout", "ConnectionError", "ValueError"}}

\* The opportunities the detector makes of the quotes, at the start times
SinkOpportunities ==
    {DetectAt(ScannedPairs[k], q, t) :
        k \in 1..NumPairs,
        q \in {x \in Quotes : DetectTable[x].kind = "opportunity"},
        t \in StartTimes}

SinkOnly == UNCHANGED <<appVars, stored, calcVars, rateVars, now, elapsed, notifyVars>>

InitSink == InitNotify

\* send_message is called with a text
SendMessage ==
    /\ Len(posts) < MaxPosts
    /\ \E exchange \in HttpExchanges :
         posts' = Append(posts, [call |-> "send_message", exchange |-> exchange,
                                 outcome |-> send_message("text", exchange)])
    /\ SinkOnly

\* send_arbitrage_alert is called with an opportunity
SendArbitrageAlert ==
    /\ Len(posts) < MaxPosts
    /\ \E opportunity \in SinkOpportunities : \E exchange \in HttpExchanges :
         posts' = Append(posts, [call |-> "send_arbitrage_alert",
                                 exchange |-> exchange,
                                 outcome |-> send_arbitrage_alert(opportunity,
                                                                  exchange)])
    /\ SinkOnly

NextSink == SendMessage \/ SendArbitrageAlert

SpecSink == InitSink /\ [][NextSink]_vars

\* The message was posted and the status accepted
Delivered(exchange) == exchange.error = "none" /\ exchange.status < 400

\* C28: send_message and send_arbitrage_alert never raise to their caller:
\* a delivery that fails, by whatever exception, gives False, and a
\* delivery that succeeds gives True.
C28_SinkNeverRaises ==
    \A p \in 1..Len(posts) :
        /\ ~posts[p].outcome.raised
        /\ posts[p].outcome.value = Delivered(posts[p].exchange)

\* send_message met a status of 500, and send_arbitrage_alert an exception
\* that is no RequestException: both gave False
C28_FailuresGaveFalse ==
    /\ Len(posts) = 2
    /\ posts[1].call = "send_message"
    /\ posts[1].exchange = [error |-> "none", status |-> 500]
    /\ posts[1].outcome = Returned(FALSE)
    /\ posts[2].call = "send_arbitrage_alert"
    /\ posts[2].exchange.error = "ValueError"
    /\ posts[2].outcome = Returned(FALSE)

\* C29: in a scan cycle every opportunity the gate admits goes to the
\* notifier and to the table of opportunities both, and the symbol's entry
\* in last_notifications is written only after that.
C29_AdmittedAlertedAndStored ==
    \A a \in 1..Len(attempts) :
        /\ Dispatched(a)
           => \E row \in 1..Len(stored) :
                  /\ stored[row].symbol = attempts[a].symbol
                  /\ stored[row].timestamp <= attempts[a].at
        /\ attempts[a].after # attempts[a].before
           => Dispatched(a) /\ attempts[a].after = Some(attempts[a].end)

\* The step is a call of send_arbitrage_notification that sent its alert
AlertSent ==
    /\ Len(attempts') = Len(attempts) + 1
    /\ attempts'[Len(attempts')].step = "sent"

\* C30: last_notifications changes only when an alert has been sent, and
\* then only in the entry of the alert's symbol: the test of the cooldown,
\* an opportunity it rejects, a send that fails and the alerts of the other
\* symbols leave an entry as it is; no entry is ever removed, and the
\* time in an entry never goes back.
C30_CooldownMapFrame ==
    [][/\ \A s \in DOMAIN last_notifications :
              /\ s \in DOMAIN last_notifications'
              /\ last_notifications'[s] >= last_notifications[s]
       /\ last_notifications' # last_notifications
          => /\ AlertSent
             /\ \A s \in DOMAIN last_notifications' :
                    s # attempts'[Len(attempts')].symbol
                    => /\ s \in DOMAIN last_notifications
                       /\ last_notifications'[s] = last_notifications[s]]_vars

\* Both pairs have an entry, the second's from a later alert, after an
\* opportunity was rejected within its cooldown and a send had failed
C30_LaterAlertOtherEntryKept ==
    /\ DOMAIN last_notifications = {ScannedPairs[1], ScannedPairs[2]}
    /\ last_notifications[ScannedPairs[1]] < last_notifications[ScannedPairs[2]]
    /\ \E a, b, c \in Attempts :
           /\ a < b /\ b < c
           /\ attempts[a].step = "failed" /\ attempts[a].symbol = ScannedPairs[2]
           /\ attempts[b].step = "cooldown" /\ attempts[b].symbol = ScannedPairs[1]
           /\ attempts[c].step = "sent" /\ attempts[c].symbol = ScannedPairs[2]
           /\ attempts[c].before = None

\* The call found the window over when it came in
WindowOver(e) == e.arrived - e.before.minute_start >= Seconds(WindowSeconds)

\* The call slept until the window ended
BudgetWait(e) == e.woke > e.arrived

\* C31: after every _rate_limit_check of a client whose rate_limit is 1 or
\* more, request_count is at least 1 and at most rate_limit; and the
\* count starts again from zero exactly when the call finds the window
\* over as it comes in, or has waited for the budget: otherwise it goes up
\* by one in the same window.
C31_CountWithinBudget ==
    \A c \in Clients : \A i \in 1..Len(req_log[c]) :
        LET e == req_log[c][i]
        IN  /\ e.after.request_count >= 1
            /\ e.after.request_count <= e.after.rate_limit
            /\ WindowOver(e) \/ BudgetWait(e)
               => e.after.request_count = 1
                  /\ e.after.minute_start = IF BudgetWait(e) THEN e.woke ELSE e.arrived
            /\ ~(WindowOver(e) \/ BudgetWait(e))
               => e.after.request_count = e.before.request_count + 1
                  /\ e.after.minute_start = e.before.minute_start

\* A client of budget 1 made a request, then a
\* call waited for the window to end and one more found the window over
C31_CountedResetBothWays ==
    \E c \in Clients :
        /\ Len(req_log[c]) = 3 /\ client[c].rate_limit = 1
        /\ BudgetWait(req_log[c][2]) /\ ~WindowOver(req_log[c][2])
        /\ WindowOver(req_log[c][3]) /\ ~BudgetWait(req_log[c][3])
        /\ client[c].request_count = 1

\* The later of two times
Later(a, b) == IF a >= b THEN a ELSE b

\* C39: a call is held back no longer than the two rules ask: its request
\* goes out at the earliest time that is the minimum spacing after the
\* client's previous request and in a window with budget left, give or
\* take what a sleep overruns; so a call that has waited for the window to
\* end goes out as it wakes, with no further sleep for the spacing.
C39_NoExcessDelay ==
    \A c \in Clients : \A i \in 1..Len(req_log[c]) :
        LET e == req_log[c][i]
            due == Later(e.woke,
                         e.before.last_request_time + Seconds(MinSpacingSeconds))
        IN  /\ e.at <= due + MaxSlack
            /\ BudgetWait(e)
               /\ e.woke >= e.before.last_request_time + Seconds(MinSpacingSeconds)
               => e.at = e.woke

\* A scan cycle is in flight: scan_and_notify has not yet returned
InFlight == main_pc = "cycle" /\ pc # "idle"

\* How many calls of scan_and_notify had returned by time t
ReturnedBy(t) == Cardinality({n \in 1..Len(cycles) : cycles[n].finished <= t})

\* The statistics stand for the completed cycles alone, in the application
\* and in the shutdown messages
StatsOfCompleted ==
    /\ InFlight
       => /\ scan_count = Len(cycles)
          /\ total_opportunities = ReturnedUpTo(Len(cycles))
    /\ \A r \in 1..Len(reports) :
           reports[r].kind = "shutdown"
           => reports[r].scan_count <= ReturnedBy(reports[r].at)

\* C32: the statistics only grow, and only as a cycle ends: scan_count and
\* total_opportunities never go down, and as long as a cycle is in flight
\* both stand for the cycles completed before it, in what stop() reports
\* in mid-cycle too.
C32_StatsOfCompletedCycles ==
    [][/\ scan_count' >= scan_count
       /\ total_opportunities' >= total_opportunities
       /\ StatsOfCompleted']_vars


\* C33: within a scan each symbol gets one fetch from each source, from
\* Nobitex first and then from Wallex, also when Nobitex has no price to
\* give; so that a scan of n symbols takes n units of the budget of each
\* client, and a fetch leaves the budget of the other client alone.
C33_OneFetchEachInOrder ==
    /\ \A c \in Clients : Len(req_log[c]) = Len(fetched)
    /\ \A k \in 1..Len(fetched) :
           /\ \A c \in Clients : Len(fetched[k].outcomes[c]) = 1
           /\ Len(req_log["wallex"]) >= k /\ Len(req_log["nobitex"]) >= k
              => req_log["wallex"][k].arrived = req_log["nobitex"][k].at
    /\ \A c \in Clients : \A i \in 2..Len(req_log[c]) :
           req_log[c][i].before = req_log[c][i - 1].after

\* ---------------------------------------------------------------------
\* Alerts for both directions of a pair
\* ---------------------------------------------------------------------

\* Quotes 2 % apart, one way round and the other
SwapQuotes == {[nobitex |-> Some(10000), wallex |-> Some(10200)], ReverseQuote}

\* Time between two calls of scan_and_notify: the scheduler's interval, and
\* the whole cooldown
SwapGaps == {Seconds(CHECK_INTERVAL_SECONDS), Seconds(notification_cooldown)}

NextSwap ==
    \/ pc = "idle" /\ Len(cycles) < MaxCycles /\ Elapse(SwapGaps)
    \/ StartScan
    \/ ScanPairWith(SwapQuotes, {0})
    \/ NotifyNextWith({"ok", "failed"}, {0, MaxSendLatency})
    \/ ReturnOpportunities

SpecSwap == InitNotify /\ [][NextSwap]_vars

\* The opportunities of the call of scan_and_notify that made attempt a
OpportunitiesOf(a) ==
    IF attempts[a].cycle <= Len(cycles) THEN cycles[attempts[a].cycle].returned
                                        ELSE opportunities

\* The source attempt a's opportunity buys from
BuyExchangeOf(a) ==
    LET ops == OpportunitiesOf(a)
    IN  ops[CHOOSE k \in 1..Len(ops) : ops[k].symbol = attempts[a].symbol].buy_exchange

\* Attempt b is for the symbol of the earlier attempt a, in the opposite
\* direction
Swapped(a, b) ==
    /\ a < b
    /\ attempts[a].symbol = attempts[b].symbol
    /\ BuyExchangeOf(a) # BuyExchangeOf(b)

\* C34: after an alert was sent for a symbol in one direction, an opportunity
\* for the same symbol in the opposite direction that comes up less than the
\* cooldown later is not alerted: it is rejected by the cooldown
C34_SwappedWithinCooldownRejected ==
    \A a, b \in Attempts :
        /\ Swapped(a, b)
        /\ Sent(a)
        /\ attempts[b].at - attempts[a].end < Seconds(notification_cooldown)
        => attempts[b].step = "cooldown"

\* An alert was sent for a symbol, and the next call found the same symbol
\* the other way round and did not alert
C34_SwappedRejected ==
    \E a, b \in Attempts :
        /\ Swapped(a, b)
        /\ Sent(a)
        /\ BuyExchangeOf(a) = "nobitex"
        /\ BuyExchangeOf(b) = "wallex"
        /\ attempts[b].cycle = attempts[a].cycle + 1
        /\ attempts[b].step = "cooldown"

\* The opportunities the scan of cycle n detected, in the order of the scan
DetectedOf(n) ==
    SelectSeq([k \in 1..Len(cycles[n].fetched) |->
                   DetectTable[cycles[n].fetched[k]]],
              LAMBDA d : d.kind = "opportunity")

\* The opportunities of seq, less their symbols and timestamps
Bare(seq) == [k \in 1..Len(seq) |-> [seq[k] EXCEPT !.symbol = "", !.timestamp = 0]]

\* C35: without a notifier every call of send_arbitrage_notification returns
\* False at once from its first test, before the cooldown dict is looked at,
\* and the dict stays empty for good; scan_and_notify returns every
\* opportunity its scan detected all the same, having passed each to
\* send_arbitrage_notification, and the scheduler adds them to its total.
C35_NoNotifierStillCounts ==
    ~bale_configured
    => /\ last_notifications = EmptyDict
       /\ \A a \in Attempts :
              /\ attempts[a].step = "unconfigured"
              /\ attempts[a].end = attempts[a].at
              /\ attempts[a].before = None /\ attempts[a].after = None
       /\ \A n \in 1..Len(cycles) :
              ~cycles[n].raised
              => /\ Bare(cycles[n].returned) = Bare(DetectedOf(n))
                 /\ Cardinality(AttemptsOf(n)) = Len(cycles[n].returned)
       /\ main_pc # "cycle" => total_opportunities = ReturnedUpTo(Len(cycles))

\* Without a notifier two cycles are over that detected three opportunities
\* between them: all were counted, none was alerted and the dict is empty
C35_CountedUnalerted ==
    /\ ~bale_configured
    /\ main_pc = "jobs" /\ Len(cycles) = 2
    /\ ~cycles[1].raised /\ ~cycles[2].raised
    /\ Len(cycles[1].returned) = 2 /\ Len(cycles[2].returned) = 1
    /\ total_opportunities = 3
    /\ Len(attempts) = 3
    /\ last_notifications = EmptyDict

\* One interval after start() was entered
FirstDue == start_time[1] + Seconds(CHECK_INTERVAL_SECONDS)

\* C36: after start() no scan cycle begins before one whole interval of
\* CHECK_INTERVAL_SECONDS has passed: none runs at the time of the start,
\* and when stop() is called within the first interval the count of scans
\* is 0 and stays 0.
C36_NoCycleInFirstInterval ==
    [][/\ scan_count' > scan_count
          => start_time # None /\ running /\ now >= FirstDue
       /\ start_time # None /\ ~running /\ now < FirstDue
          => scan_count = 0 /\ scan_count' = 0]_vars

\* A signal stopped the application within the first interval and start()
\* has returned: no scan was made
C36_StoppedBeforeFirstCycle ==
    /\ main_pc = "returned" /\ ~running
    /\ start_time # None /\ now < FirstDue
    /\ scan_count = 0 /\ cycles = <<>>

\* The shutdown message has been handed to the notifier
ShutdownReported == \E r \in 1..Len(reports) : reports[r].kind = "shutdown"

\* C37: once the shutdown message has been sent no alert is sent any more
\* and no other message either: however stop() falls among the steps of a
\* scan cycle, the shutdown message is the last the notifier sends.
C37_ShutdownMessageLast ==
    [][ShutdownReported
       => /\ reports' = reports
          /\ Len(attempts') > Len(attempts)
             => attempts'[Len(attempts')].step # "sent"]_vars

\* The error messages handed to the notifier
ErrorReports == {r \in 1..Len(reports) : reports[r].kind = "error"}

\* The cycles whose scan raised
FailedCycles == {n \in 1..Len(cycles) : cycles[n].raised}

\* C38: a cycle whose scan fails sends one error message and no more, the
\* one of scan_and_notify, whose handler leaves nothing for the handler of
\* _scan_cycle to catch; a cycle that does not fail sends none, and without
\* a notifier none is sent at all.
C38_OneErrorMessagePerFailure ==
    Cardinality(ErrorReports) = IF bale_configured THEN Cardinality(FailedCycles)
                                                   ELSE 0

\* Two cycles are over, the scan of the first raised and that of the second
\* did not: one error message went to the notifier
C38_OneFailureOneMessage ==
    /\ bale_configured /\ main_pc = "jobs" /\ scan_count = 2
    /\ FailedCycles = {1} /\ Len(cycles) = 2
    /\ Cardinality(ErrorReports) = 1

====
